---- MODULE Spec2Model ----
(***************************************************************************)
(* A model of the kubelet of src/examples/guestbook/config.json (package   *)
(* kubelet, from line 149 of that file): the per-pod worker set            *)
(* (podWorkers), the single-pod pass (syncPod), the SET filter             *)
(* (filterHostPortConflicts), the loop that consumes the updates           *)
(* (syncLoop), the pass over all pods (SyncPods) and the metrics queries.  *)
(***************************************************************************)
EXTENDS Integers, Sequences, FiniteSets, TLC

(***************************************************************************)
(* Bounds of the model.                                                    *)
(***************************************************************************)
\* Number of podWorkers.Run calls made in one behaviour.
MaxRuns == 4

\* Pod full names used as worker keys.
Keys == {"p", "q"}

\* Number of runtime containers present before the first syncPod pass.
MaxInit == 2

\* Number of syncPod passes made for the pod in one behaviour.
MaxPasses == 2

\* Largest age, in seconds, of a runtime container at a health evaluation.
MaxAge == 2

\* Number of pods in the payload of a SET event.
MaxPods == 3

\* Number of pods in the payload of an event sent to a running syncLoop.
MaxLoopPods == 2

\* Number of iterations of syncLoop in one behaviour.
MaxSteps == 3

\* Full names of the pods of a payload, by position.
PodNames == <<"p", "q", "r", "s", "t">>

\* The api.Port values of a payload: HostPort 0 is "not specified".
PortChoices ==
    { [HostPort |-> 0, Protocol |-> "TCP"],
      [HostPort |-> 80, Protocol |-> "TCP"],
      [HostPort |-> 80, Protocol |-> "UDP"],
      [HostPort |-> 90, Protocol |-> "TCP"] }

\* The ports of one pod: those of its containers, in declaration order.
PortLists ==
    {<<>>} \cup {<<x>> : x \in PortChoices}
           \cup {<<x, y>> : x \in PortChoices, y \in PortChoices}

VARIABLES
    workers,   \* podWorkers.workers: the set of pod full names with a worker
    lock,      \* podWorkers.lock: <<"free", 0>>, <<"run", i>> or <<"go", i>>
    rpc,       \* rpc[i]: where the i-th Run call, then its goroutine, stands
    rkey,      \* rkey[i]: the podFullName argument of the i-th Run call
    ncalls,    \* number of Run calls started so far
    besideHung \* history: the calls whose goroutine was started while the
               \* action of another key was blocked forever

workerVars == <<workers, lock, rpc, rkey, ncalls, besideHung>>

VARIABLES
    pods,      \* syncLoop's pods: [isNil, list], the current desired list
    inbox,     \* the PodUpdate at the head of the updates channel
    lastSet,   \* history: the payload of the last SET consumed
    nsync,     \* history: number of handler.SyncPods calls made
    syncArg,   \* history: the list given to the last handler.SyncPods call
    loop,      \* "select" while syncLoop runs, "panicked" once it has panicked
    nsteps,    \* number of iterations of syncLoop made
    nset,      \* history: number of SET events consumed
    last       \* history: the last iteration: [kind, ran, was], what it
               \* consumed, whether it called SyncPods, and the names of the
               \* pods of the desired list before it

loopVars == <<pods, inbox, lastSet, nsync, syncArg, loop, nsteps, nset, last>>

VARIABLES
    pod,       \* the Pod given to syncPod: [Containers], full name SyncedPod
    docker,    \* the runtime: the set of containers [ID, Pod, Name, Hash, Running]
    nextID,    \* the ID the runtime gives to the next container it creates
    mounted,   \* the volumes of the pod that are set up
    spc,       \* where the syncPod pass stands
    pass,      \* the locals of the pass: [listing, netID, ci, keep, killed, ret],
               \* and given, the listing the pass was called with
    calls,     \* history: the runtime calls of the pass, in order
    found,     \* history: per declared container, what the pass saw of it
    npass,     \* number of passes started
    prev       \* history: how the previous pass ended

podVars == <<pod, docker, nextID, mounted, spc, pass, calls, found, npass, prev>>

VARIABLES
    spods,     \* the pods given to SyncPods: a set of pod full names
    sp         \* the SyncPods pass: where it stands (pc) and its locals:
               \* [pc, first, desired, existing, todo, err], with the history
               \* listed, relisted (the listings succeeded), acts (steps that
               \* workers made during the pass) and torn (volumes torn down)

syncVars == <<spods, sp>>

VARIABLES
    cadvisorClient, \* Kubelet.cadvisorClient: "nil" or "set"
    info,           \* history: the last metrics query: [query, result]
    nquery          \* number of metrics queries made

infoVars == <<cadvisorClient, info, nquery>>

VARIABLES
    hc              \* one call of healthy: its inputs and its result

healthVars == <<hc>>

VARIABLES
    boot,           \* one call of StartAllInOne: the configuration, the clock,
                    \* the dialing goroutine, the unblock channel and the caller
    hook,           \* one webhook request: the request, what the controller's
                    \* collaborators answer, and what ServeHTTP did
    vin             \* one call of validateBuildInput: its input and its result

originVars == <<boot, hook, vin>>

VARIABLES
    want,           \* syncLoop's pods, for one pod P: [isNil, hash], hash 0
                    \* when the list omits P, else the fingerprint it asks for
    chan,           \* the event offered on the updates channel: [Op, hash]
    timer,          \* time since the loop began to wait in select
    kpc,            \* where the loop and its SyncPods call stand: [pc, trigger,
                    \* first (the first listing)], with the history failed (the
                    \* kind of the last runtime call when it failed), dropped
                    \* (Run was a no-op) and killed (the kill loop removed)
    wk,             \* the worker of P: [pc, hash, given], the fingerprint and
                    \* the listing its syncPod call was given
    have            \* the fingerprints of the runtime containers of P

nodeVars == <<want, chan, timer, kpc, wk, have>>

notOriginVars ==
    <<workerVars, loopVars, podVars, syncVars, infoVars, healthVars, nodeVars>>

notNodeVars ==
    <<lock, rpc, rkey, ncalls, besideHung, loopVars, podVars, syncVars, infoVars,
      healthVars, originVars>>

vars == <<workerVars, loopVars, podVars, syncVars, infoVars, healthVars, originVars, nodeVars>>

notWorkerVars == <<loopVars, podVars, syncVars, infoVars, healthVars, originVars, nodeVars>>

notPodVars == <<workerVars, loopVars, syncVars, infoVars, healthVars, originVars, nodeVars>>

notLoopVars == <<workerVars, podVars, syncVars, infoVars, healthVars, originVars, nodeVars>>

Calls == 1..MaxRuns

Free == <<"free", 0>>

(***************************************************************************)
(* The pod, the runtime and the locals of a syncPod pass                   *)
(***************************************************************************)
\* GetPodFullName(pod) of the pod that syncPod is given, and of another pod.
SyncedPod == "p"

OtherPod == "q"

networkContainerName == "net"

\* pod.Manifest.Containers.  Fingerprints are only compared with each other
\* and with 0, so every declared container has fingerprint 1 and the runtime
\* containers vary: 0 (legacy), 1 (as declared), 2 (changed).  The first
\* container varies over restart policy and probe; a pod of two containers
\* declares no probe.
FirstContainers ==
    [Name : {"a"}, Hash : {1}, RestartPolicy : {"runOnce", "never"},
     LivenessProbe : BOOLEAN]

SecondContainers ==
    [Name : {"b"}, Hash : {1}, RestartPolicy : {"never"},
     LivenessProbe : {FALSE}]

PodSpecs ==
    {[Containers |-> <<c>>] : c \in FirstContainers}
        \cup {[Containers |-> <<c, d>>] :
                 c \in {e \in FirstContainers : ~e.LivenessProbe}, d \in SecondContainers}

\* pod.Manifest.Volumes of the pod: one volume.
PodVolume == "v"

\* The runtime containers that may exist before the first pass: two network
\* containers, containers "a" with fingerprint 0 (stopped), 1 (running or
\* stopped) and 2 (running), a container "b" as declared, and a container
\* of another pod.
Candidates ==
    << [Pod |-> SyncedPod, Name |-> networkContainerName, Hash |-> 0, Running |-> TRUE],
       [Pod |-> SyncedPod, Name |-> networkContainerName, Hash |-> 0, Running |-> FALSE],
       [Pod |-> SyncedPod, Name |-> "a", Hash |-> 0, Running |-> FALSE],
       [Pod |-> SyncedPod, Name |-> "a", Hash |-> 1, Running |-> TRUE],
       [Pod |-> SyncedPod, Name |-> "a", Hash |-> 1, Running |-> FALSE],
       [Pod |-> SyncedPod, Name |-> "a", Hash |-> 2, Running |-> TRUE],
       [Pod |-> SyncedPod, Name |-> "b", Hash |-> 1, Running |-> TRUE],
       [Pod |-> OtherPod, Name |-> "a", Hash |-> 1, Running |-> TRUE] >>

Candidate(n) ==
    [ID |-> n, Pod |-> Candidates[n].Pod, Name |-> Candidates[n].Name,
     Hash |-> Candidates[n].Hash, Running |-> Candidates[n].Running]

InitialRuntimes ==
    {{Candidate(n) : n \in S} :
        S \in {T \in SUBSET (1..Len(Candidates)) : Cardinality(T) <= MaxInit}}

\* The locals of syncPod before its first statement.
NewPass(listing) ==
    [given |-> listing, listing |-> listing, netID |-> 0, ci |-> 1, keep |-> {},
     killed |-> {}, ret |-> "none", why |-> "none", infoErr |-> FALSE]

NotSeen == [id |-> 0, hash |-> 0, state |-> "none", health |-> "none"]

NoPrev == [ran |-> FALSE, ret |-> "none", failed |-> FALSE]

\* No pod is being synchronized.
PodIdle ==
    /\ pod = [Containers |-> <<>>]
    /\ docker = {}
    /\ nextID = 1
    /\ mounted = {}
    /\ spc = "idle"
    /\ pass = NewPass({})
    /\ calls = <<>>
    /\ found = <<>>
    /\ npass = 0
    /\ prev = NoPrev

\* The locals of SyncPods before its first statement.
NewSync ==
    [pc |-> "idle", first |-> {}, desired |-> {}, existing |-> {}, todo |-> {},
     err |-> FALSE, listed |-> FALSE, relisted |-> FALSE, acts |-> 0,
     kills |-> {}, failed |-> FALSE, cur |-> {}, torn |-> {}, started |-> {},
     workerErr |-> FALSE]

\* SyncPods is not running.
SyncIdle == spods = {} /\ sp = NewSync

NoQuery == [query |-> "none", result |-> "none"]

\* No metrics query was made; no metrics service is configured.
InfoIdle == cadvisorClient = "nil" /\ info = NoQuery /\ nquery = 0

NoResult == [status |-> "none", err |-> FALSE, asked |-> FALSE]

\* healthy is not being called.
HealthIdle ==
    hc = [hasProbe |-> FALSE, running |-> FALSE, age |-> 0, checkerIsNil |-> FALSE,
          answer |-> [status |-> "Healthy", err |-> FALSE], done |-> FALSE,
          result |-> NoResult]

\* StartAllInOne is not being called.
NoBoot ==
    [Timeout |-> 0, elapsed |-> 0, up |-> FALSE, dial |-> "idle", unblock |-> 0,
     err |-> FALSE, main |-> "idle", result |-> "none"]

\* No webhook request is being served.
NoRequest ==
    [parts |-> <<>>, cfgExists |-> FALSE, extractErr |-> FALSE, createErr |-> FALSE,
     done |-> FALSE, checks |-> <<>>, responses |-> <<>>, created |-> FALSE]

\* validateBuildInput is not being called.
NoInput ==
    [SourceType |-> "", GitSource |-> [isNil |-> TRUE, URI |-> <<>>], ImageTag |-> <<>>,
     STIInput |-> [isNil |-> TRUE, BuilderImage |-> <<>>], done |-> FALSE,
     errors |-> <<>>]

\* The worker of P before it is started.
NoWorker == [pc |-> "none", hash |-> 0, given |-> {}]

\* No event waits on the updates channel.
NoEvent == [Op |-> "none", hash |-> 0]

\* The locals of the loop before SyncPods was called.
NoSync ==
    [pc |-> "idle", trigger |-> "none", first |-> {}, failed |-> "none",
     dropped |-> FALSE, killed |-> FALSE]

\* The loop, its SyncPods call and the worker of P seen as a whole: not
\* running.
NodeIdle ==
    /\ want = [isNil |-> TRUE, hash |-> 0]
    /\ chan = NoEvent
    /\ timer = 0
    /\ kpc = NoSync
    /\ wk = NoWorker
    /\ have = {}

\* Nothing of the master, the webhook controller or the build validation runs.
OriginIdle == boot = NoBoot /\ hook = NoRequest /\ vin = NoInput

(***************************************************************************)
(* podWorkers                                                              *)
(***************************************************************************)
newPodWorkers ==
    /\ workers = {}
    /\ lock = Free
    /\ rpc = [i \in Calls |-> "idle"]
    /\ rkey = [i \in Calls |-> "p"]
    /\ ncalls = 0
    /\ besideHung = {}

\* self.workers.Has(podFullName)
AlreadyRunning_never(k) == FALSE

AlreadyRunning(k) == k \in workers

\* self.lock.Lock() at the head of Run: the i-th call enters with key k.
RunLock(i, k) ==
    /\ i = ncalls + 1
    /\ lock = Free
    /\ rpc[i] = "idle"
    /\ rpc' = [rpc EXCEPT ![i] = "locked"]
    /\ rkey' = [rkey EXCEPT ![i] = k]
    /\ lock' = <<"run", i>>
    /\ ncalls' = i
    /\ UNCHANGED <<workers, besideHung>>
    /\ UNCHANGED notWorkerVars

\* The busy branch of Run with the worker kept for later instead of dropped.
RunBusy_requeue(i) ==
    /\ rpc' = [rpc EXCEPT ![i] = "action"]
    /\ lock' = Free
    /\ UNCHANGED <<workers, rkey, ncalls, besideHung>>
    /\ UNCHANGED notWorkerVars

\* "This worker is already running, let it finish": return, deferred Unlock.
RunBusy(i) ==
    /\ rpc' = [rpc EXCEPT ![i] = "dropped"]
    /\ lock' = Free
    /\ UNCHANGED <<workers, rkey, ncalls, besideHung>>
    /\ UNCHANGED notWorkerVars

\* Insert, start the goroutine, return, deferred Unlock.
RunStart(i) ==
    /\ workers' = workers \cup {rkey[i]}
    /\ rpc' = [rpc EXCEPT ![i] = "action"]
    /\ lock' = Free
    /\ besideHung' = IF \E j \in Calls : rpc[j] = "hung" /\ rkey[j] # rkey[i]
                      THEN besideHung \cup {i}
                      ELSE besideHung
    /\ UNCHANGED <<rkey, ncalls>>
    /\ UNCHANGED notWorkerVars

\* The body of Run under the lock.
RunBody(i) ==
    /\ rpc[i] = "locked"
    /\ lock = <<"run", i>>
    /\ IF AlreadyRunning(rkey[i]) THEN RunBusy(i) ELSE RunStart(i)

\* action() returns normally.
ActionReturn(i) ==
    /\ rpc[i] = "action"
    /\ rpc' = [rpc EXCEPT ![i] = "returned"]
    /\ UNCHANGED <<workers, lock, rkey, ncalls, besideHung>>
    /\ UNCHANGED notWorkerVars

\* action() panics: the deferred util.HandleCrash recovers and the goroutine
\* ends; the statements after action() are not executed.
ActionPanic(i) ==
    /\ rpc[i] = "action"
    /\ rpc' = [rpc EXCEPT ![i] = "crashed"]
    /\ UNCHANGED <<workers, lock, rkey, ncalls, besideHung>>
    /\ UNCHANGED notWorkerVars

\* action() blocks forever (a runtime call that hangs).
ActionHang(i) ==
    /\ rpc[i] = "action"
    /\ rpc' = [rpc EXCEPT ![i] = "hung"]
    /\ UNCHANGED <<workers, lock, rkey, ncalls, besideHung>>
    /\ UNCHANGED notWorkerVars

\* A goroutine that takes the lock before it runs its action.
WorkerLock_early(i) ==
    /\ rpc[i] = "action"
    /\ lock = Free
    /\ lock' = <<"go", i>>
    /\ UNCHANGED <<workers, rpc, rkey, ncalls, besideHung>>
    /\ UNCHANGED notWorkerVars

\* self.lock.Lock() of the goroutine, after action().
WorkerLock(i) ==
    /\ rpc[i] = "returned"
    /\ lock = Free
    /\ rpc' = [rpc EXCEPT ![i] = "unmark"]
    /\ lock' = <<"go", i>>
    /\ UNCHANGED <<workers, rkey, ncalls, besideHung>>
    /\ UNCHANGED notWorkerVars

\* A goroutine that ends without deleting its key.
WorkerDelete_skip(i) ==
    /\ rpc[i] = "unmark"
    /\ lock = <<"go", i>>
    /\ rpc' = [rpc EXCEPT ![i] = "done"]
    /\ lock' = Free
    /\ UNCHANGED <<workers, rkey, ncalls, besideHung>>
    /\ UNCHANGED notWorkerVars

\* self.workers.Delete(podFullName), deferred Unlock, goroutine ends.
WorkerDelete(i) ==
    /\ rpc[i] = "unmark"
    /\ lock = <<"go", i>>
    /\ workers' = workers \ {rkey[i]}
    /\ rpc' = [rpc EXCEPT ![i] = "done"]
    /\ lock' = Free
    /\ UNCHANGED <<rkey, ncalls, besideHung>>
    /\ UNCHANGED notWorkerVars

WorkersNext ==
    \/ \E i \in Calls, k \in Keys : RunLock(i, k)
    \/ \E i \in Calls : RunBody(i)
    \/ \E i \in Calls : ActionReturn(i)
    \/ \E i \in Calls : ActionPanic(i)
    \/ \E i \in Calls : ActionHang(i)
    \/ \E i \in Calls : WorkerLock(i)
    \/ \E i \in Calls : WorkerDelete(i)

\* The loop before its first event: var pods []Pod is nil.
LoopIdle ==
    /\ pods = [isNil |-> TRUE, list |-> <<>>]
    /\ lastSet = <<>>
    /\ nsync = 0
    /\ syncArg = <<>>
    /\ loop = "select"
    /\ nsteps = 0
    /\ nset = 0
    /\ last = [kind |-> "none", ran |-> FALSE, was |-> {}]

\* The full names of the pods of a list.
NamesOf(list) == {list[n].Name : n \in 1..Len(list)}

NoUpdate == [Op |-> "none", Pods |-> <<>>]

WorkersInit ==
    newPodWorkers /\ LoopIdle /\ inbox = NoUpdate /\ PodIdle /\ SyncIdle /\ InfoIdle /\ HealthIdle /\ OriginIdle /\ NodeIdle

SpecWorkers == WorkersInit /\ [][WorkersNext]_vars

\* The Go scheduler runs every runnable goroutine and sync.Mutex hands the
\* lock to a waiter: a caller inside Run leaves it, and a goroutine whose
\* action returned gets to unmark.  Nothing makes an action return.
SpecWorkersFair ==
    /\ SpecWorkers
    /\ \A i \in Calls :
          WF_vars(RunBody(i)) /\ WF_vars(WorkerLock(i)) /\ WF_vars(WorkerDelete(i))

(***************************************************************************)
(* Properties of podWorkers                                                *)
(***************************************************************************)
Executing == {"action", "hung"}

InFlight == {"action", "hung", "returned", "unmark"}

ExecutingFor(k) == {i \in Calls : rkey[i] = k /\ rpc[i] \in Executing}

InFlightFor(k) == {i \in Calls : rkey[i] = k /\ rpc[i] \in InFlight}

CrashedFor(k) == {i \in Calls : rkey[i] = k /\ rpc[i] = "crashed"}

\* The step in which the i-th Run call executes its body and returns.
RunBodyStep(i) == rpc[i] = "locked" /\ rpc'[i] # "locked"

\* C1: for every pod key, at most one action for that key is executing at
\* any time, in every interleaving of Run calls and worker completions.
C1_MutualExclusion == \A k \in Keys : Cardinality(ExecutingFor(k)) <= 1

\* C1 witness: an action is executing for a key for which a second Run call
\* was made meanwhile.
C1_Witness ==
    \E i, j \in Calls :
        /\ i < j
        /\ rkey[i] = rkey[j]
        /\ rpc[i] \in Executing
        /\ rpc[j] = "dropped"

\* C2: after the action of a Run call panicked, its key is not left in the
\* busy set (it is in the set only while another worker for it is in
\* flight), and a later Run for the key, made when no worker for it is in
\* flight, executes its action.
C2_PanicClearsBusy ==
    /\ [](\A i \in Calls :
            rpc[i] = "crashed" /\ InFlightFor(rkey[i]) = {}
                => rkey[i] \notin workers)
    /\ [][\A j \in Calls :
            RunBodyStep(j) /\ CrashedFor(rkey[j]) # {} /\ InFlightFor(rkey[j]) = {}
                => rpc'[j] = "action"]_vars

\* C3: a Run call for a key that is already busy is dropped: its action is
\* not started, then or later, the busy set and every worker are left as
\* they are, and the call returns (the lock is free again) in that step,
\* with the in-flight worker still in flight.
C3_BusyRunDropped ==
    [][\A i \in Calls :
          /\ RunBodyStep(i) /\ rkey[i] \in workers
                => /\ rpc'[i] = "dropped"
                   /\ workers' = workers
                   /\ lock' = Free
                   /\ \A j \in Calls \ {i} : rpc'[j] = rpc[j]
          /\ rpc[i] = "dropped" => rpc'[i] = "dropped"]_vars

\* C3 witness: a call was dropped and the worker that made the key busy is
\* still executing its action.
C3_Witness ==
    \E i, j \in Calls :
        /\ rkey[i] = rkey[j]
        /\ rpc[i] = "action"
        /\ rpc[j] = "dropped"
        /\ rkey[i] \in workers
        /\ lock = Free

\* C4: when no action of a key panicked, the key is in the busy set exactly
\* when a worker for it is in flight; a worker whose action returned
\* eventually unmarks its key, and the Run call made for a key with no
\* worker in flight executes its action.
C4_BusyIsInFlight ==
    /\ [](\A k \in Keys :
            CrashedFor(k) = {} => (k \in workers <=> InFlightFor(k) # {}))
    /\ \A i \in Calls : (rpc[i] = "returned") ~> (rpc[i] = "done")
    /\ [][\A i \in Calls :
            /\ rpc[i] # "done" /\ rpc'[i] = "done" => rkey[i] \notin workers'
            /\ RunBodyStep(i) /\ CrashedFor(rkey[i]) = {} /\ InFlightFor(rkey[i]) = {}
                => rpc'[i] = "action" /\ rkey[i] \in workers']_vars

\* C4 witness: a worker of a key has finished and a later Run call for the
\* same key is executing its action.
C4_Witness ==
    \E i, j \in Calls :
        /\ i < j
        /\ rkey[i] = rkey[j]
        /\ CrashedFor(rkey[i]) = {}
        /\ rpc[i] = "done"
        /\ rpc[j] = "action"

\* C5: workers of different keys do not block each other: a goroutine never
\* holds the busy-set lock while its action runs or hangs, and a Run call for
\* a key B made while the action of another key A hangs still marks B busy
\* and starts B's action.
C5_NoCrossBlocking ==
    /\ [](\A i \in Calls : rpc[i] \in Executing => lock # <<"go", i>>)
    /\ [][\A i \in Calls :
            (/\ RunBodyStep(i)
             /\ rkey[i] \notin workers
             /\ \E j \in Calls : rpc[j] = "hung" /\ rkey[j] # rkey[i])
                => rpc'[i] = "action" /\ rkey[i] \in workers' /\ lock' = Free]_vars

\* C5 witness: the action of one key hangs and the action of another key was
\* started after that.
C5_Witness ==
    \E i, j \in Calls :
        /\ rpc[i] = "hung"
        /\ rkey[j] # rkey[i]
        /\ j \in besideHung
        /\ rpc[j] = "action"

(***************************************************************************)
(* filterHostPortConflicts and the SET case of syncLoop                    *)
(***************************************************************************)
\* A payload: pods with distinct full names, each with its list of ports.
PayloadOf(lists) ==
    [i \in 1..Len(lists) |-> [Name |-> PodNames[i], Ports |-> lists[i]]]

PortListSeqs(n) == [1..n -> PortLists]

\* extract := func(p *api.Port) int { return p.HostPort }
extract(p) == p.HostPort

\* validation.AccumulateUniquePorts over the ports of one pod: every port
\* value that is specified and already in the accumulator is an error, every
\* other specified value is added to the accumulator, which the caller shares
\* between the pods.
RECURSIVE AccumulateUniquePorts(_, _, _)
AccumulateUniquePorts(ports, accumulator, nerrs) ==
    IF ports = <<>>
    THEN [ports |-> accumulator, errs |-> nerrs]
    ELSE LET port == extract(Head(ports)) IN
         IF port = 0
         THEN AccumulateUniquePorts(Tail(ports), accumulator, nerrs)
         ELSE IF port \in accumulator
         THEN AccumulateUniquePorts(Tail(ports), accumulator, nerrs + 1)
         ELSE AccumulateUniquePorts(Tail(ports), accumulator \cup {port}, nerrs)

\* A filter that ignores the errors of AccumulateUniquePorts.
Conflicting_never(errs) == FALSE

\* len(errs) != 0: the pod is skipped ("continue").
Conflicting(errs) == errs # 0

\* The loop of filterHostPortConflicts from pod i on.
RECURSIVE filterFrom(_, _, _, _)
filterFrom(payload, i, ports, filtered) ==
    IF i > Len(payload)
    THEN filtered
    ELSE LET r == AccumulateUniquePorts(payload[i].Ports, ports, 0) IN
         IF Conflicting(r.errs)
         THEN filterFrom(payload, i + 1, r.ports, filtered)
         ELSE filterFrom(payload, i + 1, r.ports, Append(filtered, payload[i]))

filterHostPortConflicts(payload) == filterFrom(payload, 1, {}, <<>>)

\* A SET that adds the payload to the desired list instead of replacing it.
SyncLoopSet_merge ==
    /\ loop = "select"
    /\ nsteps < MaxSteps
    /\ inbox.Op = "SET"
    /\ LET filtered == filterHostPortConflicts(pods.list \o inbox.Pods) IN
       /\ pods' = [isNil |-> FALSE, list |-> filtered]
       /\ syncArg' = filtered
    /\ lastSet' = inbox.Pods
    /\ nsync' = nsync + 1
    /\ inbox' = NoUpdate
    /\ nsteps' = nsteps + 1
    /\ nset' = nset + 1
    /\ last' = [kind |-> "SET", ran |-> TRUE, was |-> NamesOf(pods.list)]
    /\ UNCHANGED loop
    /\ UNCHANGED notLoopVars

\* case u := <-updates with u.Op = SET: pods = filterHostPortConflicts(u.Pods),
\* then handler.SyncPods(pods).
SyncLoopSet ==
    /\ loop = "select"
    /\ nsteps < MaxSteps
    /\ inbox.Op = "SET"
    /\ LET filtered == filterHostPortConflicts(inbox.Pods) IN
       /\ pods' = [isNil |-> FALSE, list |-> filtered]
       /\ syncArg' = filtered
    /\ lastSet' = inbox.Pods
    /\ nsync' = nsync + 1
    /\ inbox' = NoUpdate
    /\ nsteps' = nsteps + 1
    /\ nset' = nset + 1
    /\ last' = [kind |-> "SET", ran |-> TRUE, was |-> NamesOf(pods.list)]
    /\ UNCHANGED loop
    /\ UNCHANGED notLoopVars

\* A SET event is waiting on the updates channel of a loop just started.
SetInit ==
    /\ newPodWorkers
    /\ LoopIdle
    /\ PodIdle
    /\ SyncIdle
    /\ InfoIdle
    /\ HealthIdle /\ OriginIdle /\ NodeIdle
    /\ \E n \in 0..MaxPods :
          \E lists \in PortListSeqs(n) :
              inbox = [Op |-> "SET", Pods |-> PayloadOf(lists)]

SetNext == SyncLoopSet

SpecSet == SetInit /\ [][SetNext]_vars

(***************************************************************************)
(* Properties of the SET case                                              *)
(***************************************************************************)
\* The specified host ports of a pod.
HostPortsOf(pd) ==
    {extract(pd.Ports[n]) : n \in 1..Len(pd.Ports)} \ {0}

\* The pod declares the same specified host port twice.
ClaimsTwice(pd) ==
    \E m, n \in 1..Len(pd.Ports) :
        m # n /\ extract(pd.Ports[m]) # 0
              /\ extract(pd.Ports[m]) = extract(pd.Ports[n])

Desired(pd) == \E n \in 1..Len(pods.list) : pods.list[n] = pd

DesiredName(name) == \E n \in 1..Len(pods.list) : pods.list[n].Name = name

\* Pod j of the payload claims a host port that pod i, before it, claims.
ClaimedBefore(payload, i, j) ==
    i < j /\ HostPortsOf(payload[i]) \cap HostPortsOf(payload[j]) # {}

SetConsumed == inbox = NoUpdate /\ ~pods.isNil

\* C10 as stated: after a SET, a pod claiming a host port that an earlier pod
\* of the payload claims is not in the desired list, and that earlier pod is.
C10_LaterDroppedEarlierKept ==
    SetConsumed =>
        \A i, j \in 1..Len(lastSet) :
            ClaimedBefore(lastSet, i, j)
                => ~DesiredName(lastSet[j].Name) /\ Desired(lastSet[i])

\* C10 amended: after a SET, a pod claiming a host port that an earlier pod
\* of the payload claims is not in the desired list; a pod of the payload is
\* in the desired list, unchanged, exactly when none of its host ports is
\* claimed by a pod before it or twice by itself, so the earlier pod is
\* retained unless it is itself in conflict.
C10_LaterDroppedEarlierKeptUnlessConflicting ==
    SetConsumed =>
        /\ \A i, j \in 1..Len(lastSet) :
              ClaimedBefore(lastSet, i, j) => ~DesiredName(lastSet[j].Name)
        /\ \A i \in 1..Len(lastSet) :
              Desired(lastSet[i]) <=>
                  /\ ~ClaimsTwice(lastSet[i])
                  /\ \A h \in 1..(i - 1) : ~ClaimedBefore(lastSet, h, i)
        /\ \A n \in 1..Len(pods.list) :
              \E i \in 1..Len(lastSet) : pods.list[n] = lastSet[i]

\* C10 witness: a SET was consumed whose second pod claims a port of the
\* first; the first is in the desired list and the second is not.
C10_Witness ==
    /\ SetConsumed
    /\ Len(lastSet) >= 2
    /\ ClaimedBefore(lastSet, 1, 2)
    /\ Desired(lastSet[1])
    /\ ~DesiredName(lastSet[2].Name)

(***************************************************************************)
(* The runtime calls of syncPod                                            *)
(***************************************************************************)
\* A machine state is [docker, nextID, calls]: the runtime and the call log.
Machine == [docker |-> docker, nextID |-> nextID, calls |-> calls]

\* A call of the log; net is the netMode of a create call: the ID of the
\* container whose network namespace is joined, 0 for "".
Call(op, name, id, ok) == [op |-> op, name |-> name, id |-> id, ok |-> ok, net |-> 0]

\* getKubeletDockerContainers(kl.dockerClient, true): every container, running
\* or not, as docker.APIContainers.
List(dk) ==
    {[ID |-> c.ID, Pod |-> c.Pod, Name |-> c.Name, Hash |-> c.Hash] : c \in dk}

\* DockerContainers.FindPodContainer: the entries of the listing, a map
\* ranged over in no fixed order, that parse to this pod and container name;
\* the call returns any one of them, or found = false when there is none.
FindPodContainer(listing, podFullName, containerName) ==
    {c \in listing : c.Pod = podFullName /\ c.Name = containerName}

\* killContainer: StopContainer, then RemoveContainer whose error is the
\* result.  When the removal fails the container stays, stopped or not.
killContainer(m, c) ==
    LET here == {d \in m.docker : d.ID = c.ID}
        removed == [m EXCEPT !.docker = @ \ here,
                             !.calls = Append(@, Call("kill", c.Name, c.ID, TRUE))]
        kept(stop) == [m EXCEPT !.docker = (@ \ here) \cup
                                     {[d EXCEPT !.Running = @ /\ ~stop] : d \in here},
                                !.calls = Append(@, Call("kill", c.Name, c.ID, FALSE))]
    IN  {[m |-> removed, ok |-> TRUE] : d \in here}
            \cup {[m |-> kept(stop), ok |-> FALSE] : stop \in BOOLEAN}

\* runContainer: CreateContainer, then StartContainer with the netMode.  A
\* failed start returns the ID of the container created together with the
\* error.
runContainer(m, name, hash, netMode) ==
    LET made(running) ==
            [ID |-> m.nextID, Pod |-> SyncedPod, Name |-> name, Hash |-> hash,
             Running |-> running]
        call(id, ok) == [Call("create", name, id, ok) EXCEPT !.net = netMode]
        created(running) ==
            [m EXCEPT !.docker = @ \cup {made(running)},
                      !.nextID = @ + 1,
                      !.calls = Append(@, call(m.nextID, running))]
    IN  { [m |-> created(TRUE), id |-> m.nextID, ok |-> TRUE],
          [m |-> created(FALSE), id |-> m.nextID, ok |-> FALSE],
          [m |-> [m EXCEPT !.calls = Append(@, call(0, FALSE))],
           id |-> 0, ok |-> FALSE] }

\* kl.dockerPuller.Pull(container.Image)
Pull(m, name) ==
    {[m |-> [m EXCEPT !.calls = Append(@, Call("pull", name, 0, ok))], ok |-> ok] :
        ok \in BOOLEAN}

\* kl.dockerClient.InspectContainer: an error, or State.Running.
InspectContainer(dk, id) ==
    {"inspectErr"} \cup {IF d.Running THEN "running" ELSE "stopped" : d \in {e \in dk : e.ID = id}}

\* What the probe mechanism answers: a status, or an error.
ProbeAnswers ==
    { [status |-> "Healthy", err |-> FALSE],
      [status |-> "Unhealthy", err |-> FALSE],
      [status |-> "Unknown", err |-> FALSE],
      [status |-> "Unknown", err |-> TRUE] }

\* container.LivenessProbe.InitialDelaySeconds of a container with a probe.
InitialDelaySeconds == 1

\* An evaluation without grace period.
InGrace_never(age) == FALSE

\* time.Now().Unix()-dockerContainer.Created < InitialDelaySeconds
InGrace(age) == age < InitialDelaySeconds

\* Kubelet.healthy; asked tells whether kl.healthChecker.HealthCheck was
\* called.
healthy(hasProbe, running, age, checkerIsNil, answer) ==
    IF ~hasProbe
    THEN [status |-> IF running THEN "Healthy" ELSE "Unhealthy", err |-> FALSE,
          asked |-> FALSE]
    ELSE IF InGrace(age)
    THEN [status |-> "Healthy", err |-> FALSE, asked |-> FALSE]
    ELSE IF checkerIsNil
    THEN [status |-> "Healthy", err |-> FALSE, asked |-> FALSE]
    ELSE [status |-> answer.status, err |-> answer.err, asked |-> TRUE]

\* The results that healthy can give for a container.
Evaluations(hasProbe, running) ==
    {healthy(hasProbe, running, age, nilChecker, answer) :
        age \in 0..MaxAge, nilChecker \in BOOLEAN, answer \in ProbeAnswers}

(***************************************************************************)
(* syncPod                                                                 *)
(***************************************************************************)
\* An outcome of the statements for one declared container.
Outcome(m, keep, killed, seen) ==
    [m |-> m, keep |-> keep, killed |-> killed, seen |-> seen]

\* A comparison that takes every fingerprint for the expected one.
HashMatches_any(hash, expectedHash) == TRUE

\* hash == 0 || hash == expectedHash
HashMatches(hash, expectedHash) == hash = 0 \/ hash = expectedHash

\* A pass without the runOnce exemption.
AllowStopped_never(running, restartPolicy) == FALSE

\* !c.State.Running && container.RestartPolicy == "runOnce"
AllowStopped(running, restartPolicy) == ~running /\ restartPolicy = "runOnce"

\* A pass that keeps a container only on a Healthy answer without error.
KeepAfterHealth_strict(h) == ~h.err /\ h.status = "Healthy"

\* A pass that keeps a container only when the health check errored.
KeepAfterHealth_onlyError(h) == h.err

\* The container is kept when the health check errored or said Healthy.
KeepAfterHealth(h) == h.err \/ h.status = "Healthy"

\* A pass that starts its containers in no other container's namespace.
NetModeOf_none(netID) == 0

\* "container:" + string(netID)
NetModeOf(netID) == netID

\* "Container doesn't exist, creating": pull the image, run the container.
createContainer(m, c, keep, killed, seen) ==
    UNION { IF p.ok
            THEN {Outcome(r.m, IF r.ok THEN keep \cup {r.id} ELSE keep, killed, seen) :
                     r \in runContainer(p.m, c.Name, c.Hash, NetModeOf(pass.netID))}
            ELSE {Outcome(p.m, keep, killed, seen)} :
            p \in Pull(m, c.Name) }

\* Kill the existing container dc; when that worked, create a new one.
replaceContainer(m, c, dc, keep, killed, seen) ==
    UNION { IF k.ok
            THEN createContainer(k.m, c, keep, killed \cup {dc.ID}, seen)
            ELSE {Outcome(k.m, keep, killed, seen)} :
            k \in killContainer(m, dc) }

\* The existing container dc has the expected fingerprint, or none: inspect.
examineContainer(m, c, dc, keep, killed) ==
    UNION { LET seen == [id |-> dc.ID, hash |-> dc.Hash, state |-> st, health |-> "none"] IN
            IF st = "inspectErr"
            THEN {Outcome(m, keep, killed, seen)}
            ELSE IF AllowStopped(st = "running", c.RestartPolicy)
            THEN {Outcome(m, keep \cup {dc.ID}, killed, seen)}
            ELSE UNION { LET seenH == [seen EXCEPT !.health =
                                          IF h.err THEN "error" ELSE h.status] IN
                         IF KeepAfterHealth(h)
                         THEN {Outcome(m, keep \cup {dc.ID}, killed, seenH)}
                         ELSE replaceContainer(m, c, dc, keep, killed, seenH) :
                         h \in Evaluations(c.LivenessProbe, st = "running") } :
            st \in InspectContainer(m.docker, dc.ID) }

\* The body of "for _, container := range pod.Manifest.Containers".
syncContainer(m, c, listing, keep, killed) ==
    LET matches == FindPodContainer(listing, SyncedPod, c.Name) IN
    IF matches = {}
    THEN createContainer(m, c, keep, killed, [NotSeen EXCEPT !.state = "absent"])
    ELSE UNION { IF HashMatches(dc.Hash, c.Hash)
                 THEN examineContainer(m, c, dc, keep, killed)
                 ELSE replaceContainer(m, c, dc, keep, killed,
                          [id |-> dc.ID, hash |-> dc.Hash,
                           state |-> "uninspected", health |-> "none"]) :
                 dc \in matches }

\* deleteAllContainers from the i-th declared container on: the container
\* found for each declared name is killed, the kills are awaited together.
RECURSIVE deleteFrom(_, _, _, _, _)
deleteFrom(m, i, listing, count, errs) ==
    IF i > Len(pod.Containers)
    THEN {[m |-> m, count |-> count, errs |-> errs]}
    ELSE LET matches == FindPodContainer(listing, SyncedPod, pod.Containers[i].Name) IN
         IF matches = {}
         THEN deleteFrom(m, i + 1, listing, count, errs)
         ELSE UNION { UNION { deleteFrom(k.m, i + 1, listing, count + 1,
                                         IF k.ok THEN errs ELSE errs + 1) :
                              k \in killContainer(m, dc) } :
                      dc \in matches }

deleteAllContainers(m, listing) == deleteFrom(m, 1, listing, 0, 0)

NetOutcome(m, ret, netID, listing) ==
    [m |-> m, ret |-> ret, netID |-> netID, listing |-> listing]

\* A pass that never lists again.
Relists_never(count) == FALSE

\* if count > 0 { dockerContainers, err = getKubeletDockerContainers(...) }
Relists(count) == count > 0

\* A pass that goes on after a failed teardown.
TeardownFailed_ignored(errs) == FALSE

\* if len(errs) > 0 { ... return -1, fmt.Errorf(...) } and the caller's
\* if err != nil { return err }
TeardownFailed(errs) == errs > 0

\* "Make sure we have a network container".
ensureNetworkContainer(m, listing) ==
    LET nets == FindPodContainer(listing, SyncedPod, networkContainerName) IN
    IF nets # {}
    THEN {NetOutcome(m, "none", n.ID, listing) : n \in nets}
    ELSE UNION {
        IF TeardownFailed(d.errs)
        THEN {NetOutcome(d.m, "teardownErr", 0, listing)}
        ELSE UNION {
            IF ~r.ok
            THEN {NetOutcome(r.m, "createErr", 0, listing)}
            ELSE IF Relists(d.count)
            THEN {NetOutcome(r.m, "none", r.id, List(r.m.docker)),
                  NetOutcome(r.m, "listErr", r.id, listing)}
            ELSE {NetOutcome(r.m, "none", r.id, listing)} :
            r \in runContainer(d.m, networkContainerName, 0, 0) } :
        d \in deleteAllContainers(m, listing) }

\* A pass without the sweep.
Unidentified_none(c, keep, killed) == FALSE

\* A sweep that forgets the containers to keep.
Unidentified_ignoreKeep(c, keep, killed) == c.ID \notin killed

\* Not kept and not killed in this pass.
Unidentified(c, keep, killed) == c.ID \notin keep /\ c.ID \notin killed

\* A sweep over the containers of every pod.
InPod_any(c, podFullName) == TRUE

\* curPodFullName == podFullName
InPod(c, podFullName) == c.Pod = podFullName

\* "Kill any containers in this pod which were not identified above".
RECURSIVE sweepFrom(_, _)
sweepFrom(m, victims) ==
    IF victims = {}
    THEN {m}
    ELSE LET v == CHOOSE x \in victims : \A y \in victims : x.ID <= y.ID IN
         UNION {sweepFrom(k.m, victims \ {v}) : k \in killContainer(m, v)}

SetMachine(m) ==
    /\ docker' = m.docker
    /\ nextID' = m.nextID
    /\ calls' = m.calls

AnyFailed ==
    \/ \E n \in 1..Len(calls) : ~calls[n].ok
    \/ \E n \in 1..Len(found) : found[n].state = "inspectErr"

\* syncPod is called with the pod and a listing just taken.
SyncPodStart ==
    /\ spc \in {"idle", "done", "failed"}
    /\ npass < MaxPasses
    /\ npass' = npass + 1
    /\ prev' = IF npass = 0 THEN NoPrev
               ELSE [ran |-> TRUE, ret |-> pass.ret, failed |-> AnyFailed]
    /\ pass' = NewPass(List(docker))
    /\ calls' = <<>>
    /\ found' = [n \in 1..Len(pod.Containers) |-> NotSeen]
    /\ spc' = "net"
    /\ UNCHANGED <<pod, docker, nextID, mounted>>
    /\ UNCHANGED notPodVars

\* The network container: found, or created after the pod's containers
\* were deleted; an error ends the pass.
SyncPodNet ==
    /\ spc = "net"
    /\ \E o \in ensureNetworkContainer(Machine, pass.listing) :
          /\ SetMachine(o.m)
          /\ pass' = [pass EXCEPT !.netID = o.netID, !.listing = o.listing,
                                  !.keep = IF o.ret = "none" THEN {o.netID} ELSE @,
                                  !.ret = IF o.ret = "none" THEN "none" ELSE "err",
                                  !.why = o.ret]
          /\ spc' = IF o.ret = "none" THEN "mount" ELSE "failed"
    /\ UNCHANGED <<pod, mounted, found, npass, prev>>
    /\ UNCHANGED notPodVars

\* mountExternalVolumes returned an error: CreateVolumeBuilder or SetUp
\* failed.
MountFailed(o) == o \in {"builderErr", "setUpErr"}

\* A pass that goes on after a failed mount.
MountAborts_never(o) == FALSE

\* if err != nil { ... return err } after mountExternalVolumes
MountAborts(o) == MountFailed(o)

\* mountExternalVolumes for the volume of the pod, which names a source and
\* so has a builder: the builder or SetUp may fail, which ends the pass.
\* Then kl.GetPodInfo, whose error is logged.
SyncPodMount ==
    /\ spc = "mount"
    /\ \E o \in {"ok", "builderErr", "setUpErr"}, infoErr \in BOOLEAN :
          /\ MountAborts(o) => ~infoErr
          /\ mounted' = IF o = "ok" THEN mounted \cup {PodVolume} ELSE mounted
          /\ spc' = IF MountAborts(o) THEN "failed" ELSE "containers"
          /\ pass' = [pass EXCEPT !.ret = IF MountAborts(o) THEN "err" ELSE @,
                                  !.why = IF MountFailed(o) THEN "mountErr" ELSE @,
                                  !.infoErr = infoErr]
    /\ UNCHANGED <<pod, docker, nextID, calls, found, npass, prev>>
    /\ UNCHANGED notPodVars

\* A loop that ends when a call for the container has failed.
AfterContainer_endOnFailure(ci, m) ==
    IF m.calls # <<>> /\ ~m.calls[Len(m.calls)].ok
    THEN Len(pod.Containers) + 1
    ELSE ci + 1

\* Every path through the loop body, "continue" included, goes on with the
\* next declared container.
AfterContainer(ci, m) == ci + 1

\* One iteration of the loop over the declared containers.
SyncPodContainer ==
    /\ spc = "containers"
    /\ pass.ci <= Len(pod.Containers)
    /\ \E o \in syncContainer(Machine, pod.Containers[pass.ci], pass.listing,
                              pass.keep, pass.killed) :
          /\ SetMachine(o.m)
          /\ pass' = [pass EXCEPT !.ci = AfterContainer(@, o.m),
                                  !.keep = o.keep, !.killed = o.killed]
          /\ found' = [found EXCEPT ![pass.ci] = o.seen]
    /\ UNCHANGED <<pod, mounted, spc, npass, prev>>
    /\ UNCHANGED notPodVars

\* The sweep after the loop, and "return nil".
SyncPodSweep ==
    /\ spc = "containers"
    /\ pass.ci > Len(pod.Containers)
    /\ \E m \in sweepFrom(Machine,
                   {c \in pass.listing :
                       InPod(c, SyncedPod) /\ Unidentified(c, pass.keep, pass.killed)}) :
          SetMachine(m)
    /\ pass' = [pass EXCEPT !.ret = "nil"]
    /\ spc' = "done"
    /\ UNCHANGED <<pod, mounted, found, npass, prev>>
    /\ UNCHANGED notPodVars

SyncPodNext ==
    \/ SyncPodStart
    \/ SyncPodNet
    \/ SyncPodMount
    \/ SyncPodContainer
    \/ SyncPodSweep

\* A pod and a runtime; no pass was made yet.
SyncPodInit ==
    /\ newPodWorkers
    /\ LoopIdle
    /\ SyncIdle
    /\ InfoIdle
    /\ HealthIdle /\ OriginIdle /\ NodeIdle
    /\ inbox = NoUpdate
    /\ pod \in PodSpecs
    /\ docker \in InitialRuntimes
    /\ nextID = Len(Candidates) + 1
    /\ mounted = {}
    /\ spc = "idle"
    /\ pass = NewPass({})
    /\ calls = <<>>
    /\ found = <<>>
    /\ npass = 0
    /\ prev = NoPrev

SpecSyncPod == SyncPodInit /\ [][SyncPodNext]_vars

(***************************************************************************)
(* Properties of syncPod                                                   *)
(***************************************************************************)
CallsWhere(op, name) ==
    {n \in 1..Len(calls) : calls[n].op = op /\ calls[n].name = name}

KillsOf(id) == {n \in 1..Len(calls) : calls[n].op = "kill" /\ calls[n].id = id}

Declared == 1..Len(found)

Present(id) == \E d \in docker : d.ID = id

Returned == spc \in {"done", "failed"}

\* The pass found for the n-th declared container a runtime container whose
\* fingerprint is the expected one, or 0.
FoundMatching(n) ==
    /\ found[n].id # 0
    /\ found[n].hash = 0 \/ found[n].hash = pod.Containers[n].Hash

\* The pass found for the n-th declared container a runtime container whose
\* fingerprint is not 0 and differs from the expected one.
FoundChanged(n) ==
    /\ found[n].id # 0
    /\ found[n].hash # 0
    /\ found[n].hash # pod.Containers[n].Hash

\* The pass made no create call and no kill call so far.
NoCreateNoKill == \A n \in 1..Len(calls) : calls[n].op \notin {"create", "kill"}

\* C6 as stated: a pass run after a completed pass, on a fresh listing and
\* with no other state change in between, issues no create and no kill.
C6_SecondPassIssuesNothing ==
    prev.ran /\ prev.ret = "nil" => NoCreateNoKill

\* C6 amended: when the earlier pass returned success and none of its
\* inspect, kill, pull, create or start calls failed, a pass run next on a
\* fresh listing with no other state change in between issues no create and
\* no kill, as long as none of its inspections fails and none of its health
\* evaluations gives a status other than Healthy.
C6_SecondPassIssuesNothingWhenHealthy ==
    (/\ prev.ran /\ prev.ret = "nil" /\ ~prev.failed
     /\ \A n \in Declared :
           /\ found[n].state # "inspectErr"
           /\ found[n].health \notin {"Unhealthy", "Unknown"})
        => NoCreateNoKill

\* C6 witness: a second pass has completed after a first one without failed
\* calls that created a container.
C6_Witness ==
    /\ spc = "done"
    /\ prev.ran /\ prev.ret = "nil" /\ ~prev.failed
    /\ \A n \in Declared : found[n].state = "running" /\ found[n].health = "Healthy"
    /\ \E n \in Declared : found[n].id > Len(Candidates)
    /\ NoCreateNoKill

\* The old container found for the n-th declared container and a container
\* created for its name in this pass are both in the runtime.
OldAndNew(n) ==
    /\ Present(found[n].id)
    /\ \E k \in CallsWhere("create", pod.Containers[n].Name) :
          calls[k].id # 0 /\ Present(calls[k].id)

\* C7 as stated: when the fingerprint of a declared container differs from
\* the non-zero fingerprint of its runtime container, the pass makes exactly
\* one kill of the old container, then exactly one create for the name, and
\* at its end the old and the new container are not both present.
C7_OneKillThenOneCreate ==
    spc = "done" =>
        \A n \in Declared :
            FoundChanged(n) =>
                /\ Cardinality(KillsOf(found[n].id)) = 1
                /\ Cardinality(CallsWhere("create", pod.Containers[n].Name)) = 1
                /\ \A k \in KillsOf(found[n].id) :
                      \A c \in CallsWhere("create", pod.Containers[n].Name) : k < c
                /\ ~OldAndNew(n)

\* C7 amended: in that case the pass kills the old container first.  When
\* that kill and the image pull succeed, there is exactly one kill of the old
\* container, followed by exactly one create for the name; when the pull
\* fails there is no create; when the kill fails there is no pull and no
\* create, and the sweep kills the old container once more.  At the end of
\* the pass the old and the new container are never both present.
C7_OneKillThenOneCreateWhenCallsSucceed ==
    spc = "done" =>
        \A n \in Declared :
            FoundChanged(n) =>
                LET name == pod.Containers[n].Name
                    kills == KillsOf(found[n].id)
                    creates == CallsWhere("create", name)
                    pulls == CallsWhere("pull", name)
                    first == CHOOSE k \in kills : \A j \in kills : k <= j
                IN  /\ kills # {}
                    /\ \A c \in creates \cup pulls : first < c
                    /\ calls[first].ok =>
                          /\ Cardinality(kills) = 1
                          /\ Cardinality(pulls) = 1
                          /\ \A q \in pulls :
                                Cardinality(creates) = IF calls[q].ok THEN 1 ELSE 0
                    /\ ~calls[first].ok =>
                          /\ Cardinality(kills) = 2
                          /\ pulls = {} /\ creates = {}
                    /\ ~OldAndNew(n)

\* C7 witness: a pass has ended in which the old container of a changed
\* declared container was killed and a new one created and started.
C7_Witness ==
    /\ spc = "done"
    /\ \E n \in Declared :
          /\ FoundChanged(n)
          /\ ~Present(found[n].id)
          /\ \E c \in CallsWhere("create", pod.Containers[n].Name) :
                calls[c].ok /\ Present(calls[c].id)

\* The pass left the container found for the n-th declared container as it
\* was: no kill of it, no pull and no create for its name, and it is still in
\* the runtime and among the containers to keep.
Untouched(n) ==
    /\ KillsOf(found[n].id) = {}
    /\ CallsWhere("pull", pod.Containers[n].Name) = {}
    /\ CallsWhere("create", pod.Containers[n].Name) = {}
    /\ Present(found[n].id)
    /\ found[n].id \in pass.keep
    /\ spc # "failed"
    /\ spc = "done" => pass.ret = "nil"

\* The pass found the n-th declared container with a matching runtime
\* container that the inspection reports as not running.
FoundStopped(n) == FoundMatching(n) /\ found[n].state = "stopped"

C9_HealthErrorKeeps ==
    \A n \in Declared :
        FoundMatching(n) /\ found[n].health = "error" =>
            /\ KillsOf(found[n].id) = {}
            /\ CallsWhere("create", pod.Containers[n].Name) = {}
            /\ Present(found[n].id)

\* C9 witness: a pass has ended, sweep included, in which the health
\* evaluation of a declared container returned an error.
C9_Witness ==
    /\ spc = "done"
    /\ \E n \in Declared : FoundMatching(n) /\ found[n].health = "error"
    /\ \E k \in 1..Len(calls) : calls[k].op = "kill"

(***************************************************************************)
(* syncLoop                                                                *)
(***************************************************************************)
\* The operations of a PodUpdate: SET, UPDATE, and ADD for every other one.
Ops == {"SET", "UPDATE", "ADD"}

\* The ports of one pod of an event sent to a running loop: an unspecified
\* host port, one host port, or one host port twice.
LoopPortLists ==
    { <<[HostPort |-> 0, Protocol |-> "TCP"]>>,
      <<[HostPort |-> 80, Protocol |-> "TCP"]>>,
      <<[HostPort |-> 90, Protocol |-> "TCP"]>>,
      <<[HostPort |-> 80, Protocol |-> "TCP"], [HostPort |-> 80, Protocol |-> "UDP"]>> }

\* A sender offers an update on the updates channel; it waits there until
\* the loop receives it.
Send ==
    /\ loop = "select"
    /\ nsteps < MaxSteps
    /\ inbox = NoUpdate
    /\ \E op \in Ops, n \in 0..MaxLoopPods :
          \E lists \in [1..n -> LoopPortLists] :
              inbox' = [Op |-> op, Pods |-> PayloadOf(lists)]
    /\ UNCHANGED <<pods, lastSet, nsync, syncArg, loop, nsteps, nset, last>>
    /\ UNCHANGED notLoopVars

\* An UPDATE that is taken for a SET of its payload.
SyncLoopUpdate_applied ==
    /\ loop = "select"
    /\ nsteps < MaxSteps
    /\ inbox.Op = "UPDATE"
    /\ pods' = [isNil |-> FALSE, list |-> filterHostPortConflicts(inbox.Pods)]
    /\ syncArg' = pods'.list
    /\ nsync' = nsync + 1
    /\ inbox' = NoUpdate
    /\ nsteps' = nsteps + 1
    /\ last' = [kind |-> "UPDATE", ran |-> TRUE, was |-> NamesOf(pods.list)]
    /\ UNCHANGED <<lastSet, loop, nset>>
    /\ UNCHANGED notLoopVars

\* case UPDATE: "not implemented", continue.
SyncLoopUpdate ==
    /\ loop = "select"
    /\ nsteps < MaxSteps
    /\ inbox.Op = "UPDATE"
    /\ inbox' = NoUpdate
    /\ nsteps' = nsteps + 1
    /\ last' = [kind |-> "UPDATE", ran |-> FALSE, was |-> NamesOf(pods.list)]
    /\ UNCHANGED <<pods, lastSet, nsync, syncArg, loop, nset>>
    /\ UNCHANGED notLoopVars

\* A default case that drops the update and goes on.
SyncLoopOther_ignore ==
    /\ loop = "select"
    /\ nsteps < MaxSteps
    /\ inbox.Op \notin {"SET", "UPDATE", "none"}
    /\ inbox' = NoUpdate
    /\ nsteps' = nsteps + 1
    /\ last' = [kind |-> "other", ran |-> FALSE, was |-> NamesOf(pods.list)]
    /\ UNCHANGED <<pods, lastSet, nsync, syncArg, loop, nset>>
    /\ UNCHANGED notLoopVars

\* default: panic("syncLoop does not support incremental changes").  Nothing
\* recovers it: Kubelet.Run calls syncLoop directly.
SyncLoopOther ==
    /\ loop = "select"
    /\ nsteps < MaxSteps
    /\ inbox.Op \notin {"SET", "UPDATE", "none"}
    /\ inbox' = NoUpdate
    /\ loop' = "panicked"
    /\ nsteps' = nsteps + 1
    /\ last' = [kind |-> "other", ran |-> FALSE, was |-> NamesOf(pods.list)]
    /\ UNCHANGED <<pods, lastSet, nsync, syncArg, nset>>
    /\ UNCHANGED notLoopVars

\* A test for the empty list instead of nil.
TimeoutSkips_empty(p) == p.isNil \/ p.list = <<>>

\* if pods == nil { continue }
TimeoutSkips(p) == p.isNil

\* case <-time.After(kl.resyncInterval), then handler.SyncPods(pods) unless
\* the iteration was skipped.
SyncLoopTimeout ==
    /\ loop = "select"
    /\ nsteps < MaxSteps
    /\ IF TimeoutSkips(pods)
       THEN /\ last' = [kind |-> "timeout", ran |-> FALSE, was |-> NamesOf(pods.list)]
            /\ UNCHANGED <<nsync, syncArg>>
       ELSE /\ last' = [kind |-> "timeout", ran |-> TRUE, was |-> NamesOf(pods.list)]
            /\ nsync' = nsync + 1
            /\ syncArg' = pods.list
    /\ nsteps' = nsteps + 1
    /\ UNCHANGED <<pods, inbox, lastSet, loop, nset>>
    /\ UNCHANGED notLoopVars

LoopNext ==
    \/ Send
    \/ SyncLoopSet
    \/ SyncLoopUpdate
    \/ SyncLoopOther
    \/ SyncLoopTimeout

\* Kubelet.Run has just called syncLoop: no update was sent yet.
LoopInit ==
    newPodWorkers /\ LoopIdle /\ inbox = NoUpdate /\ PodIdle /\ SyncIdle /\ InfoIdle /\ HealthIdle /\ OriginIdle /\ NodeIdle

SpecLoop == LoopInit /\ [][LoopNext]_vars

(***************************************************************************)
(* Properties of syncLoop                                                  *)
(***************************************************************************)
\* No specified host port is claimed by two different pods of the list.
NoSharedHostPort(list) ==
    \A i, j \in 1..Len(list) :
        i # j => HostPortsOf(list[i]) \cap HostPortsOf(list[j]) = {}

\* C11: in every state of the sync loop, the desired pod list, and the list
\* last handed to SyncPods, contain no host port other than 0 that two
\* different pods claim, whatever SET payloads were consumed.
C11_NoSharedHostPortInDesired ==
    NoSharedHostPort(pods.list) /\ NoSharedHostPort(syncArg)

\* C11 witness: a second SET was consumed whose payload had two pods on one
\* host port; one of them is in the list handed to SyncPods.
C11_Witness ==
    /\ nset >= 2
    /\ last.kind = "SET"
    /\ ~NoSharedHostPort(lastSet)
    /\ Len(syncArg) = 1
    /\ HostPortsOf(syncArg[1]) # {}

\* The iteration that consumes the waiting update.
Consumes(op) == inbox.Op = op /\ inbox' = NoUpdate

\* C15: consuming a SET replaces the desired list by the filtered payload,
\* whose pods are all pods of the payload, and the same iteration calls
\* SyncPods exactly once, with that list.
C15_SetReplacesAndSyncsOnce ==
    [][Consumes("SET") =>
          /\ pods' = [isNil |-> FALSE, list |-> filterHostPortConflicts(inbox.Pods)]
          /\ \A n \in 1..Len(pods'.list) :
                \E i \in 1..Len(inbox.Pods) : pods'.list[n] = inbox.Pods[i]
          /\ nsync' = nsync + 1
          /\ syncArg' = pods'.list
          /\ nsteps' = nsteps + 1]_vars

\* C15 witness: a SET was consumed after an earlier SET had left a pod in the
\* desired list that the new payload does not name; the pod is gone.
C15_Witness ==
    /\ last.kind = "SET"
    /\ nset >= 2
    /\ \E name \in last.was :
          /\ ~DesiredName(name)
          /\ name \notin NamesOf(lastSet)
    /\ pods.list # <<>>
    /\ syncArg = pods.list

\* C16: consuming an UPDATE leaves the desired list as it was and calls no
\* SyncPods.
C16_UpdateIsNoOp ==
    [][Consumes("UPDATE") =>
          /\ pods' = pods
          /\ nsync' = nsync
          /\ syncArg' = syncArg]_vars

\* C16 witness: an UPDATE with a payload other than the desired list was
\* consumed after a SET.
C16_Witness ==
    /\ last.kind = "UPDATE"
    /\ ~pods.isNil
    /\ pods.list # <<>>
    /\ nsync = nset

\* The iteration taken on a timeout.
TimeoutStep == nsteps' = nsteps + 1 /\ last'.kind = "timeout"

\* C17: the desired list is nil exactly as long as no SET was consumed; a
\* timeout leaves the list unchanged and calls SyncPods, with that list, if
\* and only if a SET was consumed before, be the list empty or not.
C17_TimeoutSyncsIffSetSeen ==
    /\ [](pods.isNil <=> nset = 0)
    /\ [][TimeoutStep =>
             /\ pods' = pods
             /\ IF nset > 0
                THEN nsync' = nsync + 1 /\ syncArg' = pods.list
                ELSE nsync' = nsync /\ syncArg' = syncArg]_vars

\* C17 witness: a timeout ran SyncPods with the empty list left by a SET
\* whose payload was filtered out entirely.
C17_Witness ==
    /\ last.kind = "timeout"
    /\ last.ran
    /\ lastSet # <<>>
    /\ pods.list = <<>>
    /\ syncArg = <<>>

\* C18: an update that is neither SET nor UPDATE makes the loop panic in
\* the iteration that consumes it, without a SyncPods call, and a loop that
\* has panicked does nothing more.
C18_OtherOpPanics ==
    /\ [][inbox.Op \notin {"SET", "UPDATE", "none"} /\ inbox' # inbox =>
             /\ loop' = "panicked"
             /\ nsync' = nsync
             /\ pods' = pods]_vars
    /\ [][loop = "panicked" => UNCHANGED loopVars]_vars

\* C18 witness: the loop has panicked on such an update after a SET.
C18_Witness ==
    /\ loop = "panicked"
    /\ last.kind = "other"
    /\ nset > 0
    /\ nsync = nset

(***************************************************************************)
(* Properties of syncPod: the network container, duplicates                *)
(***************************************************************************)
\* The runtime containers of the pod with this container name.
InRuntime(name) == {d \in docker : d.Pod = SyncedPod /\ d.Name = name}

\* The create calls of the pass for the declared containers.
SiblingCreates ==
    {n \in 1..Len(calls) : calls[n].op = "create" /\ calls[n].name # networkContainerName}

\* The pass ended with "return nil".
PassSucceeded == spc = "done" /\ pass.ret = "nil"

ContainerNames == {networkContainerName, "a", "b"}

\* The containers of the listing given to the pass with this name.
Given(name) == {c \in pass.given : c.Pod = SyncedPod /\ c.Name = name}

\* The listing given to the pass has several containers of this name.
Duplicated(name) == Cardinality(Given(name)) > 1

MaxNode == 2

\* The largest number of changes pod workers make to the runtime during a pass.
MaxActs == 1

\* pod.Manifest.Containers of the pod with this full name: the declared
\* container names.
Manifest(k) == IF k = SyncedPod THEN {"a"} ELSE {"a", "b"}

\* The containers the node may hold when SyncPods is called: a network
\* container, declared containers of both pods, and one container "x" no
\* manifest declares.
NodeCandidates ==
    << [Pod |-> SyncedPod, Name |-> networkContainerName, Hash |-> 0, Running |-> TRUE],
       [Pod |-> SyncedPod, Name |-> "a", Hash |-> 1, Running |-> TRUE],
       [Pod |-> SyncedPod, Name |-> "x", Hash |-> 1, Running |-> TRUE],
       [Pod |-> OtherPod, Name |-> "a", Hash |-> 1, Running |-> TRUE] >>

NodeRuntimes ==
    {{[ID |-> n, Pod |-> NodeCandidates[n].Pod, Name |-> NodeCandidates[n].Name,
       Hash |-> NodeCandidates[n].Hash, Running |-> NodeCandidates[n].Running] : n \in S} :
        S \in {T \in SUBSET (1..Len(NodeCandidates)) : Cardinality(T) <= MaxNode}}

\* The variables of the pod pass and of the worker table that SyncPods and
\* the abstract worker steps leave alone.
passVars == <<pod, spc, pass, found, npass, prev>>
tableVars == <<lock, rpc, rkey, ncalls, besideHung>>

\* desiredContainers after the loop over pods: for every desired pod its
\* network container and each container of its manifest.
DesiredContainers_noNet(podSet) ==
    UNION {{<<k, n>> : n \in Manifest(k)} : k \in podSet}
DesiredContainers(podSet) ==
    {<<k, networkContainerName>> : k \in podSet} \cup
        UNION {{<<k, n>> : n \in Manifest(k)} : k \in podSet}

\* if _, ok := desiredContainers[podContainer{podFullName, containerName}]; !ok
Undesired_none(c, desired) == FALSE
Undesired(c, desired) == <<c.Pod, c.Name>> \notin desired

\* dockerContainers, err := getKubeletDockerContainers(...): on an error
\* SyncPods returns it at once.
SyncPodsList(ok) ==
    /\ sp.pc = "list"
    /\ sp' = IF ok
             THEN [sp EXCEPT !.pc = "dispatch", !.first = List(docker), !.listed = TRUE]
             ELSE [sp EXCEPT !.pc = "returned", !.err = TRUE]
    /\ UNCHANGED <<spods, workers, tableVars, docker, nextID, calls, mounted, passVars>>
    /\ UNCHANGED <<loopVars, infoVars, healthVars, originVars, nodeVars>>

\* The loop over pods: the desired set is filled and podWorkers.Run is called
\* for every pod; Run returns at once for a pod whose worker is still running
\* and otherwise records the pod and starts its worker.
SyncPodsDispatch ==
    /\ sp.pc = "dispatch"
    /\ sp' = [sp EXCEPT !.pc = "relist", !.desired = DesiredContainers(spods),
                        !.started = spods \ workers]
    /\ workers' = workers \cup spods
    /\ UNCHANGED <<spods, tableVars, docker, nextID, calls, mounted, passVars>>
    /\ UNCHANGED <<loopVars, infoVars, healthVars, originVars, nodeVars>>

\* A second listing whose failure is passed over: the kill loop goes on with
\* the first listing.
SyncPodsRelist_goOn(ok) ==
    /\ sp.pc = "relist"
    /\ sp' = IF ok
             THEN [sp EXCEPT !.pc = "kill", !.existing = List(docker),
                             !.todo = List(docker), !.relisted = TRUE, !.err = FALSE]
             ELSE [sp EXCEPT !.pc = "kill", !.existing = sp.first,
                             !.todo = sp.first, !.err = TRUE]
    /\ UNCHANGED <<spods, workers, tableVars, docker, nextID, calls, mounted, passVars>>
    /\ UNCHANGED <<loopVars, infoVars, healthVars, originVars, nodeVars>>

\* existingContainers, err := getKubeletDockerContainers(...): the second
\* listing; on an error SyncPods returns it at once.
SyncPodsRelist(ok) ==
    /\ sp.pc = "relist"
    /\ sp' = IF ok
             THEN [sp EXCEPT !.pc = "kill", !.existing = List(docker),
                             !.todo = List(docker), !.relisted = TRUE, !.err = FALSE]
             ELSE [sp EXCEPT !.pc = "returned", !.err = TRUE]
    /\ UNCHANGED <<spods, workers, tableVars, docker, nextID, calls, mounted, passVars>>
    /\ UNCHANGED <<loopVars, infoVars, healthVars, originVars, nodeVars>>

\* One iteration of the loop over existingContainers, a map ranged over in no
\* fixed order: a container outside the desired set is killed and err takes
\* the result of that kill.  The kills of SyncPods are recorded in sp.kills
\* and sp.failed; the call log of the pod pass is left alone.
SyncPodsKill ==
    /\ sp.pc = "kill"
    /\ \E c \in sp.todo :
          IF Undesired(c, sp.desired)
          THEN \E k \in killContainer(Machine, c) :
                  /\ docker' = k.m.docker
                  /\ sp' = [sp EXCEPT !.todo = @ \ {c}, !.err = ~k.ok,
                                      !.kills = @ \cup {c.ID},
                                      !.failed = @ \/ ~k.ok]
          ELSE /\ sp' = [sp EXCEPT !.todo = @ \ {c}]
               /\ UNCHANGED docker
    /\ UNCHANGED <<spods, workers, tableVars, nextID, calls, mounted, passVars>>
    /\ UNCHANGED <<loopVars, infoVars, healthVars, originVars, nodeVars>>

\* pod.Manifest.Volumes of the pod with this full name.  The identifier
\* path.Join(pod.Manifest.ID, volume.Name) of a volume is written by its
\* name; the two pods declare different names.
VolumesOf(k) == IF k = SyncedPod THEN {PodVolume} ELSE {"w", "u"}

\* A reconciliation that takes no volume for desired.
getDesiredVolumes_none(podSet) == {}

\* getDesiredVolumes: the volumes of the desired pods.
getDesiredVolumes(podSet) == UNION {VolumesOf(k) : k \in podSet}

\* A pass that returns the errors of its workers too.
ReturnValue_withWorkers(err, workerErr) == err \/ workerErr

\* return err: the error of the last kill, or nil; the error of a syncPod
\* call is logged in its worker.
ReturnValue(err, workerErr) == err

\* volume.GetCurrentVolumes(kl.rootDirectory): the volumes that are set up.
GetCurrentVolumes == mounted

\* kl.reconcileVolumes(pods); return err: every current volume that is not
\* desired is torn down, a failed TearDown is logged and leaves the volume.
SyncPodsReconcile ==
    /\ sp.pc = "kill"
    /\ sp.todo = {}
    /\ \E gone \in SUBSET (GetCurrentVolumes \ getDesiredVolumes(spods)) :
          /\ mounted' = mounted \ gone
          /\ sp' = [sp EXCEPT !.pc = "returned",
                              !.err = ReturnValue(@, sp.workerErr),
                              !.cur = GetCurrentVolumes,
                              !.torn = GetCurrentVolumes \ getDesiredVolumes(spods)]
    /\ UNCHANGED <<spods, workers, tableVars, docker, nextID, calls, passVars>>
    /\ UNCHANGED <<loopVars, infoVars, healthVars, originVars, nodeVars>>

\* The workers have been dispatched and SyncPods has not returned.
SyncPodsRunning == sp.pc \in {"relist", "kill"}

\* A step of the syncPod call a worker runs for its pod, beside the pass: it
\* creates and starts the network container or a declared container.
WorkerCreates(k) ==
    /\ SyncPodsRunning
    /\ k \in workers
    /\ sp.acts < MaxActs
    /\ \E n \in {networkContainerName} \cup Manifest(k) :
          docker' = docker \cup
              {[ID |-> nextID, Pod |-> k, Name |-> n,
                Hash |-> IF n = networkContainerName THEN 0 ELSE 1, Running |-> TRUE]}
    /\ nextID' = nextID + 1
    /\ sp' = [sp EXCEPT !.acts = @ + 1]
    /\ UNCHANGED <<spods, workers, tableVars, calls, mounted, passVars>>
    /\ UNCHANGED <<loopVars, infoVars, healthVars, originVars, nodeVars>>

\* A step of the syncPod call a worker runs for its pod: it kills and removes
\* a container of the pod.
WorkerKills(k) ==
    /\ SyncPodsRunning
    /\ k \in workers
    /\ sp.acts < MaxActs
    /\ \E c \in docker :
          /\ c.Pod = k
          /\ docker' = docker \ {c}
    /\ sp' = [sp EXCEPT !.acts = @ + 1]
    /\ UNCHANGED <<spods, workers, tableVars, nextID, calls, mounted, passVars>>
    /\ UNCHANGED <<loopVars, infoVars, healthVars, originVars, nodeVars>>

\* The syncPod call of a worker returns, with or without error; the error is
\* logged and the worker's function ends: the deferred delete of the pod
\* from the table.
WorkerEnds(k, ok) ==
    /\ SyncPodsRunning
    /\ k \in workers
    /\ sp.acts < MaxActs
    /\ workers' = workers \ {k}
    /\ sp' = [sp EXCEPT !.acts = @ + 1, !.workerErr = @ \/ ~ok]
    /\ UNCHANGED <<spods, tableVars, docker, nextID, calls, mounted, passVars>>
    /\ UNCHANGED <<loopVars, infoVars, healthVars, originVars, nodeVars>>

SyncPodsNext ==
    \/ \E ok \in BOOLEAN : SyncPodsList(ok)
    \/ SyncPodsDispatch
    \/ \E ok \in BOOLEAN : SyncPodsRelist(ok)
    \/ SyncPodsKill
    \/ SyncPodsReconcile
    \/ \E k \in Keys : WorkerCreates(k)
    \/ \E k \in Keys : WorkerKills(k)
    \/ \E k \in Keys, ok \in BOOLEAN : WorkerEnds(k, ok)

\* SyncPods is called with any set of desired pods, on a node holding any of
\* the candidate containers, while workers of earlier passes may still run.
SyncPodsInit ==
    /\ lock = Free
    /\ rpc = [i \in Calls |-> "idle"]
    /\ rkey = [i \in Calls |-> "p"]
    /\ ncalls = 0
    /\ besideHung = {}
    /\ workers \in SUBSET Keys
    /\ LoopIdle
    /\ InfoIdle
    /\ HealthIdle /\ OriginIdle /\ NodeIdle
    /\ inbox = NoUpdate
    /\ pod = [Containers |-> <<>>]
    /\ spc = "idle"
    /\ pass = NewPass({})
    /\ found = <<>>
    /\ npass = 0
    /\ prev = NoPrev
    /\ docker \in NodeRuntimes
    /\ nextID = Len(NodeCandidates) + 1
    /\ calls = <<>>
    /\ mounted \in {{}, {PodVolume}}
    /\ spods \in SUBSET Keys
    /\ sp = [NewSync EXCEPT !.pc = "list"]

SpecSyncPods == SyncPodsInit /\ [][SyncPodsNext]_vars

\* ---------------------------------------------------------------------------
\* Properties of SyncPods
\* ---------------------------------------------------------------------------

SyncPodsReturned == sp.pc = "returned"

\* Every kill SyncPods issued succeeded.
KillsSucceeded == ~sp.failed

\* C12 as stated: when SyncPods called with zero desired pods has ended, it
\* has killed every container that existed when it was called and no
\* container remains on the node.
C12_ZeroDesiredKillsAll ==
    (SyncPodsReturned /\ spods = {}) =>
        /\ docker = {}
        /\ sp.listed
        /\ \A c \in sp.first : c.ID \in sp.kills

\* C12 amended: when SyncPods called with zero desired pods has ended after
\* both listings succeeded, with every kill it issued succeeding and no pod
\* worker of an earlier pass changing the runtime during the pass, it has
\* killed every container that existed when it was called, no container
\* remains on the node and it returns no error.
C12_ZeroDesiredKillsAllWhenCallsSucceed ==
    (/\ SyncPodsReturned
     /\ spods = {}
     /\ sp.listed
     /\ sp.relisted
     /\ KillsSucceeded
     /\ sp.acts = 0) =>
        /\ docker = {}
        /\ \A c \in sp.first : c.ID \in sp.kills
        /\ ~sp.err

C12_Witness ==
    /\ SyncPodsReturned
    /\ spods = {}
    /\ sp.listed
    /\ sp.relisted
    /\ KillsSucceeded
    /\ sp.acts = 0
    /\ Cardinality(sp.first) >= 2
    /\ Cardinality(sp.kills) >= 2
    /\ docker = {}

\* The container is its pod's network container or is declared by its pod's
\* manifest, and its pod is desired.
InDesiredSet(c) ==
    /\ c.Pod \in spods
    /\ \/ c.Name = networkContainerName
       \/ c.Name \in Manifest(c.Pod)

\* C20: in a SyncPods pass, a container of the second listing that the kill
\* loop has passed was killed by SyncPods if and only if its pod full name
\* and container name are not in the desired set (the network container and
\* the declared containers of every desired pod); SyncPods kills nothing
\* outside the second listing, and it has passed every container of the
\* listing when it returns.
C20_KilledIffNotDesired ==
    /\ \A c \in sp.existing \ sp.todo : (c.ID \in sp.kills) <=> ~InDesiredSet(c)
    /\ \A c \in sp.todo : c.ID \notin sp.kills
    /\ sp.kills \subseteq {c.ID : c \in sp.existing}
    /\ SyncPodsReturned => sp.todo = {}

C20_Witness ==
    /\ SyncPodsReturned
    /\ sp.relisted
    /\ sp.acts > 0
    /\ \E c \in sp.existing : c.Pod \in spods /\ c.ID \in sp.kills
    /\ \E c \in sp.existing : c.Name = networkContainerName /\ c.ID \notin sp.kills
    /\ \E c \in sp.existing : c.Pod \notin spods /\ c.ID \in sp.kills

\* ---------------------------------------------------------------------------
\* The metrics queries: GetContainerInfo, GetRootInfo, GetMachineInfo
\* ---------------------------------------------------------------------------

\* The largest number of queries made.
MaxQueries == 2

notInfoVars == <<workerVars, loopVars, podVars, syncVars, healthVars, originVars, nodeVars>>

\* The answers of a configured metrics service to one request.
CadvisorAnswers == {"data", "err"}

\* A method call on kl.cadvisorClient: on the nil interface value the call
\* panics with a nil dereference; otherwise the service answers.
CallCadvisor(client) == IF client = "nil" THEN {"panic"} ELSE CadvisorAnswers

\* statsFromContainerPath: the answer of kl.cadvisorClient.ContainerInfo,
\* with no test of the client.
statsFromContainerPath(client) == CallCadvisor(client)

\* The query and its outcome are recorded; a panic ends the caller.
Asked(query, podFullName, containerName, result) ==
    /\ info.result # "panic"
    /\ nquery < MaxQueries
    /\ nquery' = nquery + 1
    /\ info' = [query |-> query, pod |-> podFullName, name |-> containerName,
                result |-> result]
    /\ UNCHANGED cadvisorClient
    /\ UNCHANGED notInfoVars

\* GetContainerInfo: (nil, nil) when no client is set; otherwise the listing
\* error, "couldn't find container", or the stats of the container found.
GetContainerInfo(podFullName, containerName, listed) ==
    \E result \in
        IF cadvisorClient = "nil" THEN {"noData"}
        ELSE IF ~listed THEN {"err"}
        ELSE IF FindPodContainer(List(docker), podFullName, containerName) = {}
             THEN {"err"}
        ELSE statsFromContainerPath(cadvisorClient) :
            Asked("container", podFullName, containerName, result)

\* GetRootInfo: the stats of the path "/".
GetRootInfo ==
    \E result \in statsFromContainerPath(cadvisorClient) :
        Asked("root", "", "", result)

\* GetMachineInfo: kl.cadvisorClient.MachineInfo().
GetMachineInfo ==
    \E result \in CallCadvisor(cadvisorClient) :
        Asked("machine", "", "", result)

InfoNext ==
    \/ \E k \in Keys, n \in {networkContainerName, "a", "b"}, listed \in BOOLEAN :
          GetContainerInfo(k, n, listed)
    \/ GetRootInfo
    \/ GetMachineInfo

\* A kubelet built with or without a metrics client (NewIntegrationTestKubelet
\* sets none), on a node holding any of the candidate containers.
InfoInit ==
    /\ newPodWorkers
    /\ LoopIdle
    /\ SyncIdle
    /\ inbox = NoUpdate
    /\ pod = [Containers |-> <<>>]
    /\ docker \in NodeRuntimes
    /\ nextID = Len(NodeCandidates) + 1
    /\ mounted = {}
    /\ spc = "idle"
    /\ pass = NewPass({})
    /\ calls = <<>>
    /\ found = <<>>
    /\ npass = 0
    /\ prev = NoPrev
    /\ HealthIdle /\ OriginIdle /\ NodeIdle
    /\ cadvisorClient \in {"nil", "set"}
    /\ info = NoQuery
    /\ nquery = 0

SpecInfo == InfoInit /\ [][InfoNext]_vars

\* C19 as stated: when no metrics service is configured, every metrics query
\* (container info, root info, machine info) returns "no data"; none fails
\* and none crashes.
C19_NoDataWhenNotConfigured ==
    (cadvisorClient = "nil" /\ info.query # "none") => info.result = "noData"

(***************************************************************************)
(* Properties of syncPod: fingerprints, failures, the frame                *)
(***************************************************************************)
\* The fingerprint is 0 or the one expected for the n-th declared container.
SameOrLegacy(hash, n) == hash = 0 \/ hash = pod.Containers[n].Hash

FailedCalls(op) == {k \in 1..Len(calls) : calls[k].op = op /\ ~calls[k].ok}

\* The steps whose failure syncPod returns: the teardown of the siblings, the
\* creation of the network container, the listing taken after it, the mount.
AbortingSteps == {"teardownErr", "createErr", "listErr", "mountErr"}

\* C22 as stated: the pass returns an error only when ensuring the network
\* container (teardown of the siblings and creation) or mounting the volumes
\* failed; a failed listing does not make it return an error.
C22_OnlyNetAndMountAbort ==
    pass.ret = "err" => pass.why \in {"teardownErr", "createErr", "mountErr"}

\* C22 amended: the pass returns an error exactly when a step of ensuring
\* the network container failed (the teardown of the siblings, the creation
\* or start of the network container, the listing taken after the creation)
\* or the mount failed; a pass in which none of these failed goes on to its
\* end and returns success, whatever else failed in it (pod-status fetch,
\* inspect, health check, pull, create or start, kill, sweep kill).
C22_OnlyNetStepsAndMountAbort ==
    /\ pass.ret = "err" <=> pass.why \in AbortingSteps
    /\ pass.why \in AbortingSteps \cup {"none"}
    /\ spc = "failed" <=> pass.ret = "err"
    /\ spc = "done" <=> pass.ret = "nil"
    /\ pass.why = "teardownErr" => FailedCalls("kill") # {}
    /\ pass.why = "createErr" =>
          \E k \in FailedCalls("create") : calls[k].name = networkContainerName

\* C22 witness: a pass has returned success although its pod-status fetch,
\* an inspection, a pull and a kill of the sweep failed.
C22_Witness ==
    /\ spc = "done"
    /\ pass.ret = "nil"
    /\ pass.infoErr
    /\ \E n \in Declared : found[n].state = "inspectErr"
    /\ FailedCalls("pull") # {}
    /\ FailedCalls("kill") # {}

\* The listing given to the pass holds no network container of the pod.
NetAbsent ==
    /\ spc \notin {"idle", "net"}
    /\ FindPodContainer(pass.given, SyncedPod, networkContainerName) = {}

\* The kills of the teardown: when the network container was absent, the
\* kills made before any create call.
TeardownKills ==
    {k \in 1..Len(calls) :
        /\ NetAbsent
        /\ calls[k].op = "kill"
        /\ \A j \in 1..k : calls[j].op # "create"}

\* The pass made nothing but the kills of the teardown, one at most for each
\* declared container.
OnlyTeardown ==
    /\ \A k \in 1..Len(calls) : k \in TeardownKills
    /\ \A n \in 1..Len(pod.Containers) :
          Cardinality({k \in TeardownKills : calls[k].name = pod.Containers[n].Name}) <= 1
    /\ \A k \in TeardownKills :
          \E n \in 1..Len(pod.Containers) : calls[k].name = pod.Containers[n].Name

\* The pass made no pull, no create for a declared container, and no kill
\* besides those of the teardown.
NothingForDeclared ==
    /\ \A k \in 1..Len(calls) :
          /\ calls[k].op # "pull"
          /\ calls[k].op = "create" => calls[k].name = networkContainerName
          /\ calls[k].op = "kill" => k \in TeardownKills
    /\ \A n \in Declared : found[n] = NotSeen
    /\ pass.ci = 1

\* C23: when the teardown of the siblings, the creation of the network
\* container or the mount of the volumes has failed, the pass has returned
\* the error and has made, after the failed step, no pull, no create and no
\* kill for a declared container and no sweep.
C23_FatalStepEndsPass ==
    /\ (\E k \in TeardownKills : ~calls[k].ok) =>
          /\ spc = "failed" /\ pass.ret = "err" /\ pass.why = "teardownErr"
          /\ OnlyTeardown
          /\ NothingForDeclared
    /\ (\E k \in FailedCalls("create") : calls[k].name = networkContainerName) =>
          /\ spc = "failed" /\ pass.ret = "err" /\ pass.why = "createErr"
          /\ calls[Len(calls)].op = "create"
          /\ Cardinality(CallsWhere("create", networkContainerName)) = 1
          /\ NothingForDeclared
    /\ pass.why = "mountErr" =>
          /\ spc = "failed" /\ pass.ret = "err"
          /\ NothingForDeclared

\* C23 witness: a pass has returned an error after a kill of its teardown
\* failed while another container of the pod, not torn down, is still in
\* the runtime.
C23_Witness ==
    /\ spc = "failed"
    /\ pass.why = "teardownErr"
    /\ \E k \in TeardownKills : ~calls[k].ok
    /\ \E c \in docker : c.Pod = SyncedPod /\ KillsOf(c.ID) = {}

\* The pull, or the create or start, for the n-th declared container failed.
PullOrCreateFailed(n) ==
    \E k \in FailedCalls("pull") \cup FailedCalls("create") :
        calls[k].name = pod.Containers[n].Name

\* C24: when the pull or the create or start of a declared container has
\* failed, the pass made one pull for it, no create after a failed pull and
\* one create otherwise, and does not keep the container; the pass goes on,
\* does not return an error, and at its end every other declared container
\* has been processed.
C24_FailedContainerIsSkipped ==
    \A n \in 1..Len(pod.Containers) :
        PullOrCreateFailed(n) =>
            LET name == pod.Containers[n].Name IN
            /\ spc \in {"containers", "done"}
            /\ pass.ret # "err"
            /\ pass.ci > n
            /\ Cardinality(CallsWhere("pull", name)) = 1
            /\ \A k \in CallsWhere("pull", name) :
                  Cardinality(CallsWhere("create", name)) = IF calls[k].ok THEN 1 ELSE 0
            /\ \A k \in CallsWhere("create", name) : calls[k].id \notin pass.keep
            /\ spc = "done" =>
                  /\ pass.ret = "nil"
                  /\ \A m \in Declared : found[m].state # "none"

\* C24 witness: a pass has ended in which the pull or the start of the first
\* declared container failed and a container was created and started for
\* the second.
C24_Witness ==
    /\ spc = "done"
    /\ Len(pod.Containers) = 2
    /\ PullOrCreateFailed(1)
    /\ \E k \in CallsWhere("create", pod.Containers[2].Name) :
          calls[k].ok /\ Present(calls[k].id)

\* The create calls for the network container.
NetCreates == CallsWhere("create", networkContainerName)

\* The network container was absent and the pass has created a new one and
\* gone on.
NetRecreated == NetAbsent /\ pass.why = "none"

C30_OtherPodsUntouched ==
    /\ \A c \in pass.given :
          c.Pod # SyncedPod =>
              /\ KillsOf(c.ID) = {}
              /\ \E d \in docker : d.ID = c.ID /\ d.Pod = c.Pod /\ d.Name = c.Name
    /\ \A k \in 1..Len(calls) :
          \A d \in docker : d.ID = calls[k].id => d.Pod = SyncedPod
    /\ \A d \in docker : d.Pod # SyncedPod => d.ID <= Len(Candidates)

\* C30 witness: a pass given a listing with a container of another pod, of
\* the same name as a declared container, has ended after it killed and
\* created containers of its own pod.
C30_Witness ==
    /\ spc = "done"
    /\ \E c \in pass.given :
          /\ c.Pod # SyncedPod
          /\ \E n \in Declared : pod.Containers[n].Name = c.Name
    /\ \E k \in 1..Len(calls) : calls[k].op = "kill" /\ calls[k].ok
    /\ \E k \in 1..Len(calls) : calls[k].op = "create" /\ calls[k].ok

(***************************************************************************)
(* healthy as a function of its inputs                                     *)
(***************************************************************************)
\* healthy is called with a container with or without probe, running or
\* not, of some age, on a kubelet with or without health checker, whose
\* checker would give some answer.
HealthyInit ==
    /\ newPodWorkers
    /\ LoopIdle
    /\ SyncIdle
    /\ InfoIdle
    /\ inbox = NoUpdate
    /\ PodIdle
    /\ OriginIdle /\ NodeIdle
    /\ \E hasProbe \in BOOLEAN, running \in BOOLEAN, age \in 0..MaxAge,
          checkerIsNil \in BOOLEAN, answer \in ProbeAnswers :
          hc = [hasProbe |-> hasProbe, running |-> running, age |-> age,
                checkerIsNil |-> checkerIsNil, answer |-> answer, done |-> FALSE,
                result |-> NoResult]

\* The call returns.
HealthyCall ==
    /\ ~hc.done
    /\ hc' = [hc EXCEPT !.done = TRUE,
                        !.result = healthy(hc.hasProbe, hc.running, hc.age,
                                           hc.checkerIsNil, hc.answer)]
    /\ UNCHANGED <<workerVars, loopVars, podVars, syncVars, infoVars, originVars, nodeVars>>

HealthyNext == HealthyCall

SpecHealthy == HealthyInit /\ [][HealthyNext]_vars

\* The result is this status, without error and without a call of the
\* health checker.
Unasked(status) == hc.result = [status |-> status, err |-> FALSE, asked |-> FALSE]

ReconcileInit ==
    /\ newPodWorkers
    /\ LoopIdle
    /\ InfoIdle
    /\ HealthIdle /\ OriginIdle /\ NodeIdle
    /\ inbox = NoUpdate
    /\ pod = [Containers |-> <<>>]
    /\ docker = {}
    /\ nextID = 1
    /\ spc = "idle"
    /\ pass = NewPass({})
    /\ calls = <<>>
    /\ found = <<>>
    /\ npass = 0
    /\ prev = NoPrev
    /\ mounted \in SUBSET UNION {VolumesOf(k) : k \in Keys}
    /\ spods \in SUBSET Keys
    /\ \E err \in BOOLEAN :
          sp = [NewSync EXCEPT !.pc = "kill", !.listed = TRUE, !.relisted = TRUE,
                               !.desired = DesiredContainers(spods),
                               !.err = err, !.failed = err]

ReconcileNext == SyncPodsReconcile

SpecReconcile == ReconcileInit /\ [][ReconcileNext]_vars

\* The volumes found set up that no desired pod declares.
Orphans == {v \in sp.cur : \A k \in spods : v \notin VolumesOf(k)}

\* reconcileVolumes has run and SyncPods has returned.
Reconciled == SyncPodsReturned /\ sp.relisted

\* C26: reconcileVolumes attempts the teardown of exactly the volumes found
\* set up that no desired pod declares, whether or not another teardown
\* failed; a volume of a desired pod stays set up; only volumes whose
\* teardown was attempted are gone; and the step that runs reconcileVolumes
\* and returns leaves the err of SyncPods as the kill loop left it.
C26_OrphansTornDown ==
    /\ [](Reconciled =>
            /\ sp.torn = Orphans
            /\ mounted \subseteq sp.cur
            /\ sp.cur \ mounted \subseteq Orphans
            /\ \A k \in spods : sp.cur \cap VolumesOf(k) \subseteq mounted)
    /\ [][sp'.pc = "returned" /\ sp'.relisted => sp'.err = sp.err]_vars

\* C26 witness: with one pod desired whose volume is set up and two orphans,
\* one teardown failed, the other orphan is gone.
C26_Witness ==
    /\ Reconciled
    /\ spods = {SyncedPod}
    /\ sp.cur = {PodVolume, "w", "u"}
    /\ Cardinality(mounted) = 2
    /\ ~sp.err


-----------------------------------------------------------------------------
\* SyncPods when a listing fails, and SyncPods beside its workers

FirstListingFailed == SyncPodsReturned /\ ~sp.listed
SecondListingFailed == SyncPodsReturned /\ sp.listed /\ ~sp.relisted

\* SyncPods has killed no container and reconciled no volume.
NothingRemoved == sp.kills = {} /\ sp.todo = {} /\ sp.torn = {} /\ sp.cur = {}

\* C28 (as stated): when the first or the second listing of SyncPods fails,
\* no pod worker has been started, no container has been killed, no volume
\* has been torn down and SyncPods returns the error.
C28_ListingFailureDispatchesNothing ==
    (FirstListingFailed \/ SecondListingFailed) =>
        sp.err /\ sp.started = {} /\ NothingRemoved

\* C28 (amended): a failed first listing ends SyncPods with the error before
\* any worker is started, any container killed or any volume torn down; a
\* failed second listing ends it with the error after the workers of the
\* desired pods were started, and before any container is killed or any
\* volume torn down.
C28_ListingFailureRemovesNothing ==
    /\ FirstListingFailed =>
          /\ sp.err /\ NothingRemoved
          /\ sp.started = {} /\ sp.desired = {} /\ sp.acts = 0
    /\ SecondListingFailed =>
          /\ sp.err /\ NothingRemoved
          /\ sp.started \subseteq spods
          /\ sp.desired = DesiredContainers(spods)

\* The second listing fails after a worker was started, with a container on
\* the node that the kill loop would have killed and a volume that the
\* reconciliation would have torn down.
C28_Witness ==
    /\ SecondListingFailed
    /\ sp.started # {}
    /\ \E c \in List(docker) : Undesired(c, sp.desired)
    /\ mounted \ getDesiredVolumes(spods) # {}

\* C29: SyncPods does not wait for a worker: with workers running or ended it
\* can take its next step, and what it returns after the kill loop is an
\* error only if one of its own kills failed, whatever the syncPod calls of
\* the workers returned.
C29_FireAndForget ==
    /\ sp.pc = "relist" => ENABLED (\E ok \in BOOLEAN : SyncPodsRelist(ok))
    /\ sp.pc = "kill" => ENABLED (SyncPodsKill \/ SyncPodsReconcile)
    /\ Reconciled /\ sp.err => sp.failed
    /\ Reconciled /\ sp.kills = {} => ~sp.err

\* SyncPods has returned without error while a worker it started is still
\* running and the syncPod call of another has failed.
C29_Witness ==
    /\ Reconciled
    /\ ~sp.err
    /\ sp.workerErr
    /\ sp.started \cap workers # {}

-----------------------------------------------------------------------------
\* filterHostPortConflicts: what makes it drop a pod

\* The specified host ports of a pod with their protocols.
HostPortProtocolsOf(pd) ==
    {<<pd.Ports[n].HostPort, pd.Ports[n].Protocol>> :
        n \in {m \in 1..Len(pd.Ports) : pd.Ports[m].HostPort # 0}}

\* The pod declares the same specified host port with the same protocol twice.
ClaimsPairTwice(pd) ==
    \E m, n \in 1..Len(pd.Ports) :
        m # n /\ pd.Ports[m].HostPort # 0 /\ pd.Ports[m] = pd.Ports[n]

\* C35: after a SET, a pod of the payload that is not in the desired list
\* claims a host port twice itself or claims a host port of a pod that is in
\* the desired list: the ports of a dropped pod drop no other pod.
C35_DroppedOnlyForRetainedPorts ==
    SetConsumed =>
        \A j \in 1..Len(lastSet) :
            ~Desired(lastSet[j]) =>
                \/ ClaimsTwice(lastSet[j])
                \/ \E i \in 1..Len(lastSet) :
                      /\ i # j
                      /\ Desired(lastSet[i])
                      /\ HostPortsOf(lastSet[i]) \cap HostPortsOf(lastSet[j]) # {}

\* C36: after a SET, a pod of the payload none of whose host ports is
\* claimed with the same protocol by another pod of the payload or twice by
\* itself is in the desired list: the same port number under different
\* protocols is no conflict.
C36_DifferentProtocolsBothKept ==
    SetConsumed =>
        \A j \in 1..Len(lastSet) :
            (/\ ~ClaimsPairTwice(lastSet[j])
             /\ \A i \in 1..Len(lastSet) :
                   i # j => HostPortProtocolsOf(lastSet[i])
                               \cap HostPortProtocolsOf(lastSet[j]) = {})
                => Desired(lastSet[j])

-----------------------------------------------------------------------------
\* syncPod when InspectContainer fails

\* C37: a declared container whose runtime container has the expected
\* fingerprint, or 0, and could not be inspected is skipped for the pass: the
\* runtime container is not killed, by the container step or by the sweep,
\* and nothing is created for its name.
C37_InspectFailureSkips ==
    \A n \in Declared :
        FoundMatching(n) /\ found[n].state = "inspectErr" =>
            /\ KillsOf(found[n].id) = {}
            /\ CallsWhere("create", pod.Containers[n].Name) = {}
            /\ Present(found[n].id)

(***************************************************************************)
(* pkg/build/api/validation: validateBuildInput                            *)
(***************************************************************************)
\* api.GitSource, the one source type.
GitSource == "git"

\* Values of GitSourceControl.URI, as the characters url.Parse looks at: the
\* empty string, "::", a relative path and two absolute URLs.
URIs ==
    { <<>>, <<":", ":">>, <<"m", "/", "r">>, <<"h", ":", "/", "/", "g">>,
      <<"g", ":", "/", "/", "g">> }

\* url.Parse fails on a string whose first colon comes before any other
\* character ("missing protocol scheme"); it accepts the other strings here.
isValidURL(uri) == ~(Len(uri) > 0 /\ uri[1] = ":")

\* errs.NewFieldRequired(field, value), errs.NewFieldInvalid(field, value):
\* the type and the field path of the error.
NewFieldRequired(field) == [Type |-> "required", Field |-> <<field>>]

NewFieldInvalid(field) == [Type |-> "invalid", Field |-> <<field>>]

\* ErrorList.Prefix(prefix): the prefix is put before the field of each error.
Prefix(list, prefix) ==
    [n \in 1..Len(list) |-> [list[n] EXCEPT !.Field = <<prefix>> \o @]]

validateGitSource(input) ==
    IF input.isNil
    THEN <<NewFieldRequired("gitSource")>>
    ELSE IF Len(input.URI) = 0
    THEN <<NewFieldRequired("URI")>>
    ELSE IF ~isValidURL(input.URI)
    THEN <<NewFieldInvalid("URI")>>
    ELSE <<>>

validateSTIBuild(sti) ==
    IF Len(sti.BuilderImage) = 0 THEN <<NewFieldRequired("builderImage")>> ELSE <<>>

\* validateBuildInput: the list that holds the sourceType error is replaced
\* by a new list when the errors of the git source are appended.
validateBuildInput(input) ==
    LET first == IF input.SourceType # GitSource
                 THEN <<NewFieldRequired("sourceType")>>
                 ELSE <<>>
        second == <<>> \o Prefix(validateGitSource(input.GitSource), "gitSource")
        third == IF Len(input.ImageTag) = 0
                 THEN Append(second, NewFieldRequired("imageTag"))
                 ELSE second
    IN  IF ~input.STIInput.isNil
        THEN third \o Prefix(validateSTIBuild(input.STIInput), "stiBuild")
        ELSE third

\* A caller is about to validate some build input.
ValidateInit ==
    /\ newPodWorkers
    /\ LoopIdle
    /\ SyncIdle
    /\ InfoIdle
    /\ HealthIdle
    /\ inbox = NoUpdate
    /\ PodIdle
    /\ NodeIdle
    /\ boot = NoBoot
    /\ hook = NoRequest
    /\ \E st \in {GitSource, ""}, uri \in URIs, noGit \in BOOLEAN,
          tag \in {<<>>, <<"r">>}, noSTI \in BOOLEAN, image \in {<<>>, <<"b">>} :
          /\ noGit => uri = <<>>
          /\ noSTI => image = <<>>
          /\ vin = [SourceType |-> st, GitSource |-> [isNil |-> noGit, URI |-> uri],
                    ImageTag |-> tag,
                    STIInput |-> [isNil |-> noSTI, BuilderImage |-> image],
                    done |-> FALSE, errors |-> <<>>]

\* The call returns its ErrorList.
ValidateCall ==
    /\ ~vin.done
    /\ vin' = [vin EXCEPT !.done = TRUE, !.errors = validateBuildInput(vin)]
    /\ UNCHANGED <<boot, hook>>
    /\ UNCHANGED notOriginVars

SpecValidate == ValidateInit /\ [][ValidateCall]_vars

\* The errors that the requirements on a build input ask for, one for each
\* requirement the input violates.
RequiredErrors(input) ==
    (IF input.SourceType # GitSource
     THEN {[Type |-> "required", Field |-> <<"sourceType">>]} ELSE {})
    \cup (IF input.GitSource.isNil
          THEN {[Type |-> "required", Field |-> <<"gitSource", "gitSource">>]} ELSE {})
    \cup (IF ~input.GitSource.isNil /\ Len(input.GitSource.URI) = 0
          THEN {[Type |-> "required", Field |-> <<"gitSource", "URI">>]} ELSE {})
    \cup (IF ~input.GitSource.isNil /\ Len(input.GitSource.URI) > 0
             /\ ~isValidURL(input.GitSource.URI)
          THEN {[Type |-> "invalid", Field |-> <<"gitSource", "URI">>]} ELSE {})
    \cup (IF Len(input.ImageTag) = 0
          THEN {[Type |-> "required", Field |-> <<"imageTag">>]} ELSE {})
    \cup (IF ~input.STIInput.isNil /\ Len(input.STIInput.BuilderImage) = 0
          THEN {[Type |-> "required", Field |-> <<"stiBuild", "builderImage">>]} ELSE {})

\* C39: validateBuildInput returns exactly one error for each requirement the
\* input violates, naming its field, and no other error.
C39_OneErrorPerViolation ==
    vin.done =>
        /\ {vin.errors[n] : n \in 1..Len(vin.errors)} = RequiredErrors(vin)
        /\ Len(vin.errors) = Cardinality(RequiredErrors(vin))

(***************************************************************************)
(* The webhook controller: ServeHTTP                                       *)
(***************************************************************************)
MaxParts == 4

\* The one build configuration the client may know, and its secret.
BuildID == "b"

ConfigSecret == "s1"

\* c.plugins: the registered plugins.
Plugins == {"github"}

\* splitPath(req.URL.Path): the parts of the request path, at most MaxParts,
\* of which the first three are read as build id, secret and plugin.
RequestPaths ==
    UNION { {SubSeq(<<BuildID, secret, plugin, "x", "y">>, 1, n) :
                secret \in {"s1", "s2"}, plugin \in {"github", "other"}} :
            n \in 0..MaxParts }

\* parseUrl: an error for fewer than three parts.
parseUrl(parts) ==
    IF Len(parts) < 3
    THEN [err |-> TRUE, buildId |-> "", secret |-> "", plugin |-> ""]
    ELSE [err |-> FALSE, buildId |-> parts[1], secret |-> parts[2], plugin |-> parts[3]]

\* A controller that takes every secret.
SecretDiffers_never(given, expected) == FALSE

\* uv.secret != buildCfg.Secret
SecretDiffers(given, expected) == given # expected

\* ServeHTTP: the checks made, in order, the error responses written and
\* whether c.osClient.CreateBuild was called.
ServeHTTP(r) ==
    LET uv == parseUrl(r.parts)
        ans(checks, responses, created) ==
            [checks |-> checks, responses |-> responses, created |-> created]
    IN  IF uv.err
        THEN ans(<<"url">>, <<"NotFound">>, FALSE)
        ELSE IF ~(r.cfgExists /\ uv.buildId = BuildID)
        THEN ans(<<"url", "config">>, <<"BadRequest">>, FALSE)
        ELSE IF SecretDiffers(uv.secret, ConfigSecret)
        THEN ans(<<"url", "config", "secret">>, <<"BadRequest">>, FALSE)
        ELSE IF uv.plugin \notin Plugins
        THEN ans(<<"url", "config", "secret", "plugin">>, <<"NotFound">>, FALSE)
        ELSE IF r.extractErr
        THEN ans(<<"url", "config", "secret", "plugin", "extract">>, <<"BadRequest">>, FALSE)
        ELSE ans(<<"url", "config", "secret", "plugin", "extract">>,
                 IF r.createErr THEN <<"BadRequest">> ELSE <<>>, TRUE)

\* A request arrives at the controller.
HookInit ==
    /\ newPodWorkers
    /\ LoopIdle
    /\ SyncIdle
    /\ InfoIdle
    /\ HealthIdle
    /\ inbox = NoUpdate
    /\ PodIdle
    /\ NodeIdle
    /\ boot = NoBoot
    /\ vin = NoInput
    /\ \E parts \in RequestPaths, cfgExists \in BOOLEAN, extractErr \in BOOLEAN,
          createErr \in BOOLEAN :
          hook = [NoRequest EXCEPT !.parts = parts, !.cfgExists = cfgExists,
                                   !.extractErr = extractErr, !.createErr = createErr]

\* ServeHTTP returns.
HookServe ==
    /\ ~hook.done
    /\ LET a == ServeHTTP(hook) IN
       hook' = [hook EXCEPT !.done = TRUE, !.checks = a.checks,
                            !.responses = a.responses, !.created = a.created]
    /\ UNCHANGED <<boot, vin>>
    /\ UNCHANGED notOriginVars

SpecHook == HookInit /\ [][HookServe]_vars

\* The checks of a request in the order of the claim, and which of them the
\* request passes.
CheckOrder == <<"url", "config", "secret", "plugin", "extract">>

Passes(check) ==
    CASE check = "url" -> Len(hook.parts) >= 3
      [] check = "config" -> hook.cfgExists
      [] check = "secret" -> Len(hook.parts) >= 3 /\ hook.parts[2] = ConfigSecret
      [] check = "plugin" -> Len(hook.parts) >= 3 /\ hook.parts[3] \in Plugins
      [] check = "extract" -> ~hook.extractErr

PassesAll == \A n \in 1..Len(CheckOrder) : Passes(CheckOrder[n])

\* C38: ServeHTTP makes its checks in the order URL parts, build
\* configuration, secret, plugin, extraction, stops at the first that fails
\* and calls CreateBuild only when all five passed; it never calls
\* CreateBuild for a request whose secret differs from the configuration's,
\* and a rejected request gets exactly one error response.
C38_BuildOnlyAfterAllChecks ==
    hook.done =>
        /\ hook.checks = SubSeq(CheckOrder, 1, Len(hook.checks))
        /\ \A n \in 1..Len(hook.checks) :
              Passes(hook.checks[n]) <=> (n < Len(hook.checks) \/ PassesAll)
        /\ hook.created <=> PassesAll
        /\ (Len(hook.parts) < 3 \/ hook.parts[2] # ConfigSecret) => ~hook.created
        /\ ~PassesAll =>
              /\ Len(hook.responses) = 1
              /\ hook.responses[1] \in {"NotFound", "BadRequest"}

\* C38 witness: a request with a wrong secret for an existing configuration
\* and a registered plugin was answered.
C38_Witness ==
    /\ hook.done
    /\ Len(hook.parts) >= 3
    /\ hook.cfgExists
    /\ hook.parts[2] # ConfigSecret
    /\ hook.parts[3] \in Plugins
    /\ ~hook.extractErr
    /\ hook.responses = <<"BadRequest">>

(***************************************************************************)
(* The master: ServerConfig.StartAllInOne                                  *)
(***************************************************************************)
MaxTimeout == 6

\* StartAllInOne has started its two goroutines and waits on unblock.
\* Timeout is in units of the clock; NewServerConfig leaves it 0.
BootInit ==
    /\ newPodWorkers
    /\ LoopIdle
    /\ SyncIdle
    /\ InfoIdle
    /\ HealthIdle
    /\ inbox = NoUpdate
    /\ PodIdle
    /\ NodeIdle
    /\ hook = NoRequest
    /\ vin = NoInput
    /\ \E t \in 0..MaxTimeout :
          boot = [NoBoot EXCEPT !.Timeout = t, !.dial = "loop", !.main = "waiting"]

\* cfg.startAllInOne(done) gets as far as accepting connections.
BootListen ==
    /\ boot.main # "idle"
    /\ ~boot.up
    /\ boot' = [boot EXCEPT !.up = TRUE]
    /\ UNCHANGED <<hook, vin>>
    /\ UNCHANGED notOriginVars

\* One iteration of the dialing loop, entered while cfg.Timeout > elapsed:
\* Dial connects when the server accepts, and then unblock receives 1 and
\* the loop ends; otherwise err is set and elapsed is taken from the clock,
\* which has advanced by dt.
BootDial(dt) ==
    /\ boot.dial = "loop"
    /\ boot.Timeout > boot.elapsed
    /\ boot' = IF boot.up
               THEN [boot EXCEPT !.err = FALSE, !.unblock = 1, !.dial = "ended"]
               ELSE [boot EXCEPT !.err = TRUE, !.elapsed = @ + dt]
    /\ UNCHANGED <<hook, vin>>
    /\ UNCHANGED notOriginVars

\* The loop condition cfg.Timeout > elapsed is false: the goroutine ends.
BootDialEnd ==
    /\ boot.dial = "loop"
    /\ ~(boot.Timeout > boot.elapsed)
    /\ boot' = [boot EXCEPT !.dial = "ended"]
    /\ UNCHANGED <<hook, vin>>
    /\ UNCHANGED notOriginVars

\* <-unblock, then return nil, err or the server.
BootReturn ==
    /\ boot.main = "waiting"
    /\ boot.unblock > 0
    /\ boot' = [boot EXCEPT !.unblock = @ - 1, !.main = "returned",
                            !.result = IF boot.err THEN "error" ELSE "server"]
    /\ UNCHANGED <<hook, vin>>
    /\ UNCHANGED notOriginVars

BootNext ==
    \/ BootListen
    \/ \E dt \in 1..2 : BootDial(dt)
    \/ BootDialEnd
    \/ BootReturn

\* The goroutines are scheduled and the receive is taken when a value is
\* there; nothing makes the server accept.
SpecBoot ==
    /\ BootInit
    /\ [][BootNext]_vars
    /\ WF_vars(\E dt \in 1..2 : BootDial(dt))
    /\ WF_vars(BootDialEnd)
    /\ WF_vars(BootReturn)

\* C40: StartAllInOne always returns, with the server once a connection was
\* accepted or with an error when none was within Timeout.
C40_StartAlwaysReturns == <>(boot.main = "returned")

(***************************************************************************)
(* SyncPods called again while the worker of a pod runs                    *)
(***************************************************************************)
\* The pods whose declared containers are the ones SyncPods takes for
\* desired.
RacePods ==
    {s \in PodSpecs :
        \A i \in 1..Len(s.Containers) : s.Containers[i].Name \in Manifest(SyncedPod)}

\* The loop over pods for the one desired pod: podWorkers.Run returns at once
\* when the worker of the pod is running; otherwise it records the pod and
\* starts the worker, whose action is syncPod with the pod and the listing
\* that SyncPods took at its first statement.
SyncPodsRun ==
    /\ sp.pc = "dispatch"
    /\ sp' = [sp EXCEPT !.pc = "relist", !.desired = DesiredContainers(spods),
                        !.started = spods \ workers]
    /\ IF AlreadyRunning(SyncedPod)
       THEN UNCHANGED <<workers, spc, pass, calls, found, npass, prev>>
       ELSE /\ workers' = workers \cup {SyncedPod}
            /\ npass' = npass + 1
            /\ prev' = IF npass = 0 THEN NoPrev
                       ELSE [ran |-> TRUE, ret |-> pass.ret, failed |-> AnyFailed]
            /\ pass' = NewPass(sp.first)
            /\ calls' = <<>>
            /\ found' = [n \in 1..Len(pod.Containers) |-> NotSeen]
            /\ spc' = "net"
    /\ UNCHANGED <<spods, tableVars, pod, docker, nextID, mounted>>
    /\ UNCHANGED <<loopVars, infoVars, healthVars, originVars, nodeVars>>

\* The action of the worker has returned: the pod is deleted from the table.
WorkerReturns ==
    /\ spc \in {"done", "failed"}
    /\ AlreadyRunning(SyncedPod)
    /\ workers' = workers \ {SyncedPod}
    /\ spc' = "idle"
    /\ UNCHANGED <<tableVars, pod, docker, nextID, mounted, pass, calls, found, npass,
                   prev, syncVars>>
    /\ UNCHANGED <<loopVars, infoVars, healthVars, originVars, nodeVars>>

\* syncLoop calls handler.SyncPods(pods) again with the same desired list.
SyncPodsAgain ==
    /\ sp.pc = "returned"
    /\ npass < MaxPasses
    /\ sp' = [NewSync EXCEPT !.pc = "list"]
    /\ UNCHANGED <<spods, workerVars, podVars>>
    /\ UNCHANGED <<loopVars, infoVars, healthVars, originVars, nodeVars>>

RaceNext ==
    \/ \E ok \in BOOLEAN : SyncPodsList(ok)
    \/ SyncPodsRun
    \/ \E ok \in BOOLEAN : SyncPodsRelist(ok)
    \/ SyncPodsKill
    \/ SyncPodsReconcile
    \/ SyncPodsAgain
    \/ SyncPodNet
    \/ SyncPodMount
    \/ SyncPodContainer
    \/ SyncPodSweep
    \/ WorkerReturns

\* The first SyncPods call for one desired pod on a node without containers.
RaceInit ==
    /\ newPodWorkers
    /\ LoopIdle
    /\ InfoIdle
    /\ HealthIdle /\ OriginIdle /\ NodeIdle
    /\ inbox = NoUpdate
    /\ pod \in RacePods
    /\ docker = {}
    /\ nextID = 1
    /\ mounted = {}
    /\ spc = "idle"
    /\ pass = NewPass({})
    /\ calls = <<>>
    /\ found = <<>>
    /\ npass = 0
    /\ prev = NoPrev
    /\ spods = {SyncedPod}
    /\ sp = [NewSync EXCEPT !.pc = "list"]

SpecRace == RaceInit /\ [][RaceNext]_vars

\* C31: in every interleaving of SyncPods calls and the workers they start,
\* on a node that began without containers, no two runtime containers of the
\* same pod and container name exist together: a worker never creates a
\* container beside the one an earlier worker created.
C31_NoDuplicateContainers ==
    \A c \in docker, e \in docker : c.Pod = e.Pod /\ c.Name = e.Name => c.ID = e.ID

(***************************************************************************)
(* syncLoop, SyncPods and the worker of one pod, over time                 *)
(***************************************************************************)
\* kl.resyncInterval, in ticks of the clock.
ResyncInterval == 2

\* The fingerprints a SET may ask for the one declared container of the pod.
Fingerprints == {1, 2}

\* The events of the stream: a SET whose list omits the pod (hash 0) or holds
\* it with a fingerprint, and an UPDATE.
NodeEvents ==
    {[Op |-> "SET", hash |-> h] : h \in {0} \cup Fingerprints}
        \cup {[Op |-> "UPDATE", hash |-> 0]}

\* The pods argument of SyncPods, as full names.
WantedPods == IF want.hash = 0 THEN {} ELSE {SyncedPod}

\* The declared container of the pod, as a listing names it.
TheContainer == [Pod |-> SyncedPod, Name |-> "a"]

\* A source puts an event on the updates channel.
NodeSend(e) ==
    /\ chan = NoEvent
    /\ chan' = e
    /\ UNCHANGED <<want, timer, kpc, wk, have, workers>>
    /\ UNCHANGED notNodeVars

\* Time passes while the loop waits in select: no event is ready and
\* time.After(kl.resyncInterval) has not fired yet.
NodeTick ==
    /\ kpc.pc = "select"
    /\ chan = NoEvent
    /\ timer < ResyncInterval
    /\ timer' = timer + 1
    /\ UNCHANGED <<want, chan, kpc, wk, have, workers>>
    /\ UNCHANGED notNodeVars

\* case SET: pods = u.Pods, filtered (one pod conflicts with no other); the
\* loop goes on to handler.SyncPods(pods).
NodeSet ==
    /\ kpc.pc = "select"
    /\ chan.Op = "SET"
    /\ want' = [isNil |-> FALSE, hash |-> chan.hash]
    /\ chan' = NoEvent
    /\ timer' = 0
    /\ kpc' = [kpc EXCEPT !.pc = "list", !.trigger = "SET"]
    /\ UNCHANGED <<wk, have, workers>>
    /\ UNCHANGED notNodeVars

\* case UPDATE: continue; the next iteration waits on a new time.After.
NodeUpdate ==
    /\ kpc.pc = "select"
    /\ chan.Op = "UPDATE"
    /\ chan' = NoEvent
    /\ timer' = 0
    /\ UNCHANGED <<want, kpc, wk, have, workers>>
    /\ UNCHANGED notNodeVars

\* case <-time.After(kl.resyncInterval): continue when pods is nil, else the
\* loop goes on to handler.SyncPods(pods).
NodeTimeout ==
    /\ kpc.pc = "select"
    /\ timer = ResyncInterval
    /\ timer' = 0
    /\ kpc' = IF want.isNil THEN kpc
              ELSE [kpc EXCEPT !.pc = "list", !.trigger = "timer"]
    /\ UNCHANGED <<want, chan, wk, have, workers>>
    /\ UNCHANGED notNodeVars

\* SyncPods, its first listing: on an error it returns at once.
NodeList(ok) ==
    /\ kpc.pc = "list"
    /\ kpc' = IF ok
              THEN [kpc EXCEPT !.pc = "dispatch", !.first = have, !.failed = "none"]
              ELSE [kpc EXCEPT !.pc = "select", !.failed = "list"]
    /\ UNCHANGED <<want, chan, timer, wk, have, workers>>
    /\ UNCHANGED notNodeVars

\* SyncPods, the loop over pods: podWorkers.Run for the pod when the list
\* holds it; Run is a no-op when the worker of the pod is running and else
\* starts a worker with the pod and the first listing.
NodeDispatch ==
    /\ kpc.pc = "dispatch"
    /\ IF WantedPods = {}
       THEN /\ kpc' = [kpc EXCEPT !.pc = "relist", !.dropped = FALSE]
            /\ UNCHANGED <<wk, workers>>
       ELSE IF AlreadyRunning(SyncedPod)
       THEN /\ kpc' = [kpc EXCEPT !.pc = "relist", !.dropped = TRUE]
            /\ UNCHANGED <<wk, workers>>
       ELSE /\ kpc' = [kpc EXCEPT !.pc = "relist", !.dropped = FALSE]
            /\ workers' = workers \cup {SyncedPod}
            /\ wk' = [pc |-> "running", hash |-> want.hash, given |-> kpc.first]
    /\ UNCHANGED <<want, chan, timer, have>>
    /\ UNCHANGED notNodeVars

\* SyncPods, the second listing and the kill loop: on a listing error it
\* returns at once; else every container outside the desired set is killed,
\* and SyncPods returns to the loop.
NodeKill(listed, killed) ==
    /\ kpc.pc = "relist"
    /\ IF ~listed
       THEN /\ kpc' = [kpc EXCEPT !.pc = "select", !.failed = "list"]
            /\ UNCHANGED have
       ELSE IF have # {} /\ Undesired(TheContainer, DesiredContainers(WantedPods))
       THEN /\ have' = IF killed THEN {} ELSE have
            /\ kpc' = [kpc EXCEPT !.pc = "select", !.killed = killed,
                                  !.failed = IF killed THEN "none" ELSE "kill"]
       ELSE /\ kpc' = [kpc EXCEPT !.pc = "select", !.failed = "none"]
            /\ UNCHANGED have
    /\ UNCHANGED <<want, chan, timer, wk, workers>>
    /\ UNCHANGED notNodeVars

\* The syncPod call of the worker, with the listing it was given: a container
\* of the listing with another fingerprint is killed, and the declared
\* container is created when the listing holds none that matches; a failed
\* runtime call leaves the runtime as it was.
NodeWorkerSync(ok) ==
    /\ AlreadyRunning(SyncedPod)
    /\ wk.pc = "running"
    /\ have' = IF ~ok THEN have
               ELSE (have \ {g \in wk.given : ~HashMatches(g, wk.hash)})
                        \cup (IF \E g \in wk.given : HashMatches(g, wk.hash)
                              THEN {} ELSE {wk.hash})
    /\ kpc' = [kpc EXCEPT !.failed = IF ok THEN @ ELSE "worker"]
    /\ wk' = [wk EXCEPT !.pc = "returning"]
    /\ UNCHANGED <<want, chan, timer, workers>>
    /\ UNCHANGED notNodeVars

\* The action of the worker panics, or never returns: the deferred
\* HandleCrash recovers and the pod stays in the table.
NodeWorkerStuck ==
    /\ AlreadyRunning(SyncedPod)
    /\ wk.pc = "running"
    /\ wk' = [wk EXCEPT !.pc = "stuck"]
    /\ UNCHANGED <<want, chan, timer, kpc, have, workers>>
    /\ UNCHANGED notNodeVars

\* The action has returned: the pod is deleted from the table.
NodeWorkerEnd ==
    /\ wk.pc = "returning"
    /\ workers' = workers \ {SyncedPod}
    /\ wk' = NoWorker
    /\ UNCHANGED <<want, chan, timer, kpc, have>>
    /\ UNCHANGED notNodeVars

NodeLoopStep == NodeSet \/ NodeUpdate \/ NodeTimeout

NodeWorkerStep == (\E ok \in BOOLEAN : NodeWorkerSync(ok)) \/ NodeWorkerStuck

NodeNext ==
    \/ \E e \in NodeEvents : NodeSend(e)
    \/ NodeTick
    \/ NodeSet
    \/ NodeUpdate
    \/ NodeTimeout
    \/ \E ok \in BOOLEAN : NodeList(ok)
    \/ NodeDispatch
    \/ \E listed \in BOOLEAN, killed \in BOOLEAN : NodeKill(listed, killed)
    \/ \E ok \in BOOLEAN : NodeWorkerSync(ok)
    \/ NodeWorkerStuck
    \/ NodeWorkerEnd

\* syncLoop starts on a node that holds any containers of the pod.
NodeInit ==
    /\ newPodWorkers
    /\ LoopIdle
    /\ PodIdle
    /\ SyncIdle
    /\ InfoIdle
    /\ HealthIdle /\ OriginIdle
    /\ inbox = NoUpdate
    /\ want = [isNil |-> TRUE, hash |-> 0]
    /\ chan = NoEvent
    /\ timer = 0
    /\ kpc = [NoSync EXCEPT !.pc = "select"]
    /\ wk = NoWorker
    /\ have \in SUBSET Fingerprints

\* Time passes whenever the loop waits again and again with no event ready;
\* the loop takes a case of its select that is ready (select chooses at
\* random among the ready cases, so the timer case is taken when it is ready
\* again and again); every runtime call of SyncPods returns; a worker that
\* was started runs.
SpecNode ==
    /\ NodeInit
    /\ [][NodeNext]_vars
    /\ SF_vars(NodeTick)
    /\ WF_vars(NodeLoopStep)
    /\ SF_vars(NodeTimeout)
    /\ WF_vars(\E ok \in BOOLEAN : NodeList(ok))
    /\ WF_vars(NodeDispatch)
    /\ WF_vars(\E listed \in BOOLEAN, killed \in BOOLEAN : NodeKill(listed, killed))
    /\ WF_vars(NodeWorkerStep)
    /\ WF_vars(NodeWorkerEnd)

\* C34: once a SET was consumed, whenever the loop waits in select, SyncPods
\* is invoked again later, whatever UPDATE events arrive.
C34_ResyncDespiteUpdates ==
    [](kpc.pc = "select" /\ ~want.isNil => <>(kpc.pc = "list"))

\* The desired list holds the pod but its worker runs for another fingerprint,
\* and the Run call of the pass was a no-op.
DispatchDropped == kpc.dropped /\ want.hash # 0 /\ wk.hash # want.hash

\* The declared container of the desired pod exists with the desired
\* fingerprint, and no other container of the pod does.
Converged == want.hash # 0 => have = {want.hash}

\* C33: when a dispatch was dropped because the worker of the pod was busy,
\* and from some time on no SET arrives and no runtime call fails, and no
\* action is stuck, then from some time on the runtime holds the declared
\* container with the desired fingerprint.
C33_DroppedChangeIsReconciled ==
    (/\ <>DispatchDropped
     /\ <>[](chan.Op # "SET")
     /\ <>[](kpc.failed = "none")
     /\ [](wk.pc # "stuck"))
        => <>[]Converged

\* The desired list omits the pod, and no event on the stream holds it.
PodRemoved == ~want.isNil /\ want.hash = 0 /\ chan.hash = 0

\* SyncPods was invoked because the resync timer fired.
TimerFired == kpc.pc = "list" /\ kpc.trigger = "timer"

\* C32 as stated: when from some time on the desired list omits the pod,
\* no kill fails and the resync timer fires again and again, then from some
\* time on the runtime holds no container of the pod.
C32_RemovedPodGoes ==
    (/\ <>[]PodRemoved
     /\ [](kpc.failed # "kill")
     /\ []<>TimerFired)
        => <>[](have = {})

\* C32 amended: when from some time on the desired list omits the pod, no
\* kill and no listing of SyncPods fails and the resync timer fires again
\* and again, then from some time on the runtime holds no container of the
\* pod.
C32_RemovedPodGoesWhenListed ==
    (/\ <>[]PodRemoved
     /\ [](kpc.failed \notin {"kill", "list"})
     /\ []<>TimerFired)
        => <>[](have = {})

\* C32 witness: the desired list omits the pod while the worker started for
\* it is still in the table, and the kill loop has removed its containers.
C32_Witness ==
    /\ PodRemoved
    /\ AlreadyRunning(SyncedPod)
    /\ kpc.killed
    /\ kpc.pc = "select"
    /\ have = {}
====
